---- MODULE Spec2Model ----
(***************************************************************************)
(* Model of the sftp client of glider_toolbox                              *)
(* (m/common_tools/@sftp/private/mexsftp.c): the pipelined download        *)
(* getfile_sftp_connection and the session operations around it.           *)
(*                                                                         *)
(* libssh is an external library.  Its calls are modelled by what libssh   *)
(* does (sftp.c of libssh 0.6/0.7): the results it can return are inputs   *)
(* chosen by the environment, and the fields of sftp_file and sftp_session *)
(* that the client reads back (file->offset, sftp->errnum, the request     *)
(* queue) are state.                                                       *)
(***************************************************************************)
EXTENDS Integers, Sequences, FiniteSets, TLC

(***************************************************************************)
(* Sizes.  The model is scaled: a window of max_nreq = 3 slots stands for  *)
(* the program's 32, chunks of max_blen = 8 down to min_blen = 2 bytes for *)
(* its 524288 down to 512, and SEEK32_MOD = 32 for the 2^32 of the         *)
(* uint32_t offset of sftp_seek.  The scaling keeps what the program's     *)
(* numbers give: the chunk can be halved more than once, a response can be *)
(* shorter than the smallest chunk, and a full window of chunks plus one   *)
(* byte stays below the 32-bit range.                                      *)
(***************************************************************************)
max_nreq == 3
max_blen == 8
min_blen == 2
SEEK32_MOD == 32

\* At most this many requests fail to be sent in one download.
MaxIssueFail == 1

\* libssh/libssh.h and libssh/sftp.h
SSH_OK == 0
SSH_ERROR == -1
SSH_AGAIN == -2
SSH_FX_OK == 0
SSH_FX_EOF == 1
SSH_FX_FAILURE == 4
SSH_FX_NO_CONNECTION == 6

Min(a, b) == IF a < b THEN a ELSE b
Max(a, b) == IF a < b THEN b ELSE a

Slots == 0 .. (max_nreq - 1)

\* The remote file sizes of the downloads: empty, one byte, and the sizes
\* around one chunk.
FileSizes == {0, 1, max_blen - 1, max_blen, max_blen + 1}

\* A remote file one byte larger than what a 32-bit offset reaches.
LargeSize == SEEK32_MOD + 1

\* The byte of the remote file at offset i (never 0, the byte of a hole).
RemoteByte(i) == i + 1

\* The n bytes of the remote file from offset off.
RemoteData(off, n) == [k \in 1 .. n |-> RemoteByte(off + k - 1)]

VARIABLES
  pc,          \* position in getfile_sftp_connection
  size,        \* size of the remote file
  blen, rlen, reof, rerr, werr, nreq, nbad, ireq,
  reqs, rsps, lens, offs,
  rc,          \* *rc as returned
  rfile,       \* file->offset of the sftp_file
  errnum,      \* sftp->errnum, what sftp_get_error returns
  pending,     \* read requests sent and not yet answered: [id, off, len]
  lfile,       \* the local file, a sequence of bytes
  wrote,       \* history: times each local offset was written (capped)
  nfail        \* history: number of requests that could not be sent

dvars == <<pc, size, blen, rlen, reof, rerr, werr, nreq, nbad, ireq,
           reqs, rsps, lens, offs, rc, rfile, errnum, pending,
           lfile, wrote, nfail>>

VARIABLES
  conn_ssh,    \* conn->ssh is not NULL
  conn_sftp,   \* conn->sftp is not NULL
  conn_pwd,    \* conn->pwd: NULL or a string
  call,        \* history: the last session operation and the path it took
  status,      \* *rc of the last session operation
  pwd0,        \* history: conn->pwd before the last session operation
  life         \* history: "new" until the first successful open, "open"
               \* from then on, "closed" once close has released that
               \* session, "reopened" after a later successful open

svars == <<conn_ssh, conn_sftp, conn_pwd, call, status, pwd0, life>>

VARIABLES
  fcall,       \* history: the arguments of the call under study and the
               \* answers its environment gave, or NULL
  fret,        \* what a function returned: nothing yet, or <<the value>>
  list,        \* the caller's list: not assigned, or <<the sequence>>
  put,         \* the locals of putfile_sftp_connection and its history
  nsent,       \* history: the sftp requests the last operation sent to
               \* the server
  ring,        \* the nodes of an attribute list: not made, or <<the
               \* fields of its nodes and the nodes allocated>>
  rhist        \* history: the calls made on that list

uvars == <<fcall, fret, list, put, nsent, ring, rhist>>

vars == <<dvars, svars, uvars>>

(***************************************************************************)
(* Strings are sequences of characters.  A char* is NULL or points to a    *)
(* string: NULL is the empty sequence and Str(s) the pointer to s.         *)
(***************************************************************************)
NULL == <<>>
Str(s) == <<s>>
Val(p) == p[1]

\* No function is under test, no list is assigned, no upload is running.
PutIdle == [pc |-> "idle", rlen |-> 0, rerr |-> FALSE, werr |-> 0,
            left |-> 0, ferror |-> FALSE, nwrite |-> 0, wfail |-> FALSE,
            lsize |-> 0, remote |-> <<>>]

UIdle ==
  fcall = NULL /\ fret = NULL /\ list = NULL /\ put = PutIdle /\ nsent = 0
  /\ ring = NULL /\ rhist = NULL

\* prepend_pwd with the test of the last character of pwd left out.
PrependAlwaysSep(path, pwd, alloc) ==
  IF path = NULL THEN NULL
  ELSE IF ~alloc THEN NULL
  ELSE IF pwd = NULL THEN path
  ELSE Str(Val(pwd) \o <<"/">> \o Val(path))

\* prepend_pwd; alloc tells whether strdup or malloc gives memory.
prepend_pwd(path, pwd, alloc) ==
  IF path = NULL THEN NULL
  ELSE IF ~alloc THEN NULL
  ELSE IF pwd = NULL THEN path
  ELSE LET d == Val(pwd)
           sep == IF Len(d) > 0 /\ d[Len(d)] # "/" THEN <<"/">> ELSE <<>>
       IN  Str(d \o sep \o Val(path))

\* expand_path taking the empty string for no path at all.
ExpandEmptyNull(path, pwd, alloc) ==
  IF path # NULL /\ Len(Val(path)) > 0 /\ Val(path)[1] = "/"
  THEN IF alloc THEN path ELSE NULL
  ELSE IF path = Str(<<>>) THEN NULL
  ELSE prepend_pwd(path, pwd, alloc)

\* expand_path: an absolute path is copied, any other is put after pwd.
expand_path(path, pwd, alloc) ==
  IF path # NULL /\ Len(Val(path)) > 0 /\ Val(path)[1] = "/"
  THEN IF alloc THEN path ELSE NULL
  ELSE prepend_pwd(path, pwd, alloc)

(***************************************************************************)
(* The remote file system: directories /, /a and /a/b, regular files /f    *)
(* and /a/f.                                                               *)
(***************************************************************************)
Dirs == {<<"/">>, <<"/", "a">>, <<"/", "a", "/", "b">>}
Files == {<<"/", "f">>, <<"/", "a", "/", "f">>}

\* The paths given to the operations: relative and absolute, of
\* directories, of files and of nothing, the parent, and the empty string.
PathArgs == {<<"a">>, <<"b">>, <<"f">>, <<"x">>, <<".", ".">>, <<"/">>,
             <<"/", "a">>, <<"/", "f">>, <<"a", "/">>, <<>>}

\* The components of a path, between its slashes.
RECURSIVE Split(_, _, _)
Split(s, cur, acc) ==
  IF s = <<>> THEN (IF cur = <<>> THEN acc ELSE Append(acc, cur))
  ELSE IF Head(s) = "/"
       THEN Split(Tail(s), <<>>, IF cur = <<>> THEN acc ELSE Append(acc, cur))
       ELSE Split(Tail(s), Append(cur, Head(s)), acc)

\* The components left when "." is dropped and ".." takes one back.
RECURSIVE Resolve(_, _)
Resolve(cs, acc) ==
  IF cs = <<>> THEN acc
  ELSE IF Head(cs) = <<".">> THEN Resolve(Tail(cs), acc)
  ELSE IF Head(cs) = <<".", ".">>
       THEN Resolve(Tail(cs),
                    IF acc = <<>> THEN acc ELSE SubSeq(acc, 1, Len(acc) - 1))
       ELSE Resolve(Tail(cs), Append(acc, Head(cs)))

RECURSIVE Join(_)
Join(cs) == IF cs = <<>> THEN <<>> ELSE <<"/">> \o Head(cs) \o Join(Tail(cs))

\* The answer of the server to SSH_FXP_REALPATH, the canonical absolute
\* path that sftp_canonicalize_path returns.
realpath(s) ==
  LET r == Join(Resolve(Split(s, <<>>, <<>>), <<>>))
  IN  IF r = <<>> THEN <<"/">> ELSE r

\* sftp_canonicalize_path(sftp, path): NULL when the request fails.
sftp_canonicalize_path(path, answered) ==
  IF answered THEN Str(realpath(Val(path))) ELSE NULL

\* sftp_stat(sftp, path): the type in the attributes, "none" for the NULL
\* returned when the request fails or nothing is at the path.
sftp_stat(path, answered) ==
  IF ~answered THEN "none"
  ELSE IF Val(path) \in Dirs THEN "directory"
  ELSE IF Val(path) \in Files THEN "regular"
  ELSE "none"

\* ssh_get_error_code(ssh): the code of the last error recorded in the
\* session, SSH_NO_ERROR when the failing call recorded none.
SSH_NO_ERROR == 0
SSH_REQUEST_DENIED == 1
SSH_FATAL == 2
SshErrorCodes == {SSH_NO_ERROR, SSH_REQUEST_DENIED, SSH_FATAL}

\* After make_sftp_connection: no session, no working directory.
SessionNew ==
  /\ conn_ssh = FALSE /\ conn_sftp = FALSE /\ conn_pwd = NULL
  /\ call = [op |-> "none", path |-> NULL, branch |-> "none"]
  /\ status = SSH_OK
  /\ pwd0 = NULL
  /\ life = "new"

\* An open session with the root as working directory, as a transfer
\* finds it.
SessionReady ==
  /\ conn_ssh = TRUE /\ conn_sftp = TRUE /\ conn_pwd = Str(<<"/">>)
  /\ call = [op |-> "none", path |-> NULL, branch |-> "none"]
  /\ status = SSH_OK
  /\ pwd0 = NULL
  /\ life = "open"

(***************************************************************************)
(* open_sftp_connection: the steps that can fail, in order, and the status *)
(* each leaves in *rc.  The connection is populated only when all succeed. *)
(***************************************************************************)
OpenSteps == {"ssh_new", "ssh_connect", "hostkey", "auth", "sftp_new",
              "sftp_init", "pwd", "ok"}

SSH_AUTH_ERROR == -1
SSH_AUTH_DENIED == 1
SSH_AUTH_PARTIAL == 2

OpenStatus(step) ==
  IF step = "ok" THEN {SSH_OK}
  ELSE IF step = "auth"
       THEN {SSH_AUTH_ERROR, SSH_AUTH_DENIED, SSH_AUTH_PARTIAL}
  ELSE IF step = "pwd" THEN SshErrorCodes
  ELSE {SSH_ERROR}

\* The locals of a call that hands nothing over but its status.
NoOutput == fcall' = NULL /\ fret' = NULL /\ list' = NULL /\ put' = PutIdle

\* home: the directory the server is in after authentication, whose
\* canonical path is its answer to sftp_canonicalize_path(sftp, ".").
open_sftp_connection(step, home, code) ==
  /\ pc = "idle"
  /\ code \in OpenStatus(step)
  /\ status' = code
  /\ call' = [op |-> "open", path |-> NULL, branch |-> step]
  /\ pwd0' = conn_pwd
  /\ IF step = "ok"
     THEN /\ conn_ssh' = TRUE /\ conn_sftp' = TRUE
          /\ conn_pwd' = sftp_canonicalize_path(Str(home), TRUE)
     ELSE UNCHANGED <<conn_ssh, conn_sftp, conn_pwd>>
  /\ life' = IF step # "ok" THEN life
             ELSE IF life = "new" THEN "open"
             ELSE IF life = "closed" THEN "reopened"
             ELSE life
  /\ UNCHANGED <<ring, rhist>>
  /\ nsent' = IF step \in {"pwd", "ok"} THEN 2
              ELSE IF step = "sftp_init" THEN 1
              ELSE 0
  /\ NoOutput
  /\ UNCHANGED dvars

\* A variant of Released that takes every member, set or not.
ReleasedAll == {"pwd", "sftp", "ssh"}

\* The members close_sftp_connection releases: those that are set.
Released ==
  (IF conn_pwd # NULL THEN {"pwd"} ELSE {}) \cup
  (IF conn_sftp THEN {"sftp"} ELSE {}) \cup
  (IF conn_ssh THEN {"ssh"} ELSE {})

\* Releasing a member that is not set: free(NULL) does nothing, sftp_free
\* and ssh_free return at once on NULL, ssh_disconnect(NULL) too.
\* close_sftp_connection: the branch tells whether anything was released.
close_sftp_connection ==
  /\ pc = "idle"
  /\ conn_pwd' = NULL
  /\ conn_sftp' = FALSE
  /\ conn_ssh' = FALSE
  /\ call' = [op |-> "close", path |-> NULL,
              branch |-> IF Released = {} THEN "nothing" ELSE "released"]
  /\ pwd0' = conn_pwd
  /\ life' = IF Released # {} /\ life = "open" THEN "closed" ELSE life
  /\ UNCHANGED <<ring, rhist>>
  /\ nsent' = 0
  /\ NoOutput
  /\ UNCHANGED <<status, dvars>>

(***************************************************************************)
(* cwd_sftp_connection: the path taken through the function,               *)
(*   "closed"        conn->sftp is NULL,                                   *)
(*   "memory"        expand_path returns NULL,                             *)
(*   "canonicalize"  sftp_canonicalize_path returns NULL,                  *)
(*   "stat"          sftp_stat returns NULL,                               *)
(*   "notdir"        the attributes are not those of a directory,          *)
(*   "ok"            the working directory is replaced.                    *)
(***************************************************************************)
CwdBranch(nwd, cwd, atts) ==
  IF ~conn_sftp THEN "closed"
  ELSE IF nwd = NULL THEN "memory"
  ELSE IF cwd = NULL THEN "canonicalize"
  ELSE IF atts = "none" THEN "stat"
  ELSE IF atts # "directory" THEN "notdir"
  ELSE "ok"

CwdStatus(branch, code) ==
  IF branch = "closed" THEN SSH_FX_NO_CONNECTION
  ELSE IF branch = "memory" THEN SSH_ERROR
  ELSE IF branch = "canonicalize" THEN code
  ELSE IF branch = "stat" THEN code
  ELSE IF branch = "notdir" THEN SSH_ERROR
  ELSE SSH_OK

\* A variant of CwdPwd that gives up the old directory on every path.
CwdPwdFreed(branch, cwd) == IF branch = "ok" THEN cwd ELSE NULL

\* A variant of CwdPwd that takes the canonical path before it is checked.
CwdPwdUnchecked(branch, cwd) == IF cwd # NULL THEN cwd ELSE conn_pwd

\* A variant of CwdPwd that takes the canonical path before its type is
\* checked.
CwdPwdAnyType(branch, cwd) ==
  IF branch \in {"ok", "notdir"} THEN cwd ELSE conn_pwd

\* conn->pwd after the call: cwd, assigned after every check has passed.
CwdPwd(branch, cwd) == IF branch = "ok" THEN cwd ELSE conn_pwd

cwd_sftp_connection(path, alloc, canon, stat, code) ==
  LET nwd == IF conn_sftp THEN expand_path(Str(path), conn_pwd, alloc)
             ELSE NULL
      cwd == IF nwd # NULL THEN sftp_canonicalize_path(nwd, canon) ELSE NULL
      atts == IF cwd # NULL THEN sftp_stat(cwd, stat) ELSE "none"
      branch == CwdBranch(nwd, cwd, atts)
  IN  /\ pc = "idle"
      /\ conn_pwd' = CwdPwd(branch, cwd)
      /\ status' = CwdStatus(branch, code)
      /\ call' = [op |-> "cwd", path |-> Str(path), branch |-> branch]
      /\ pwd0' = conn_pwd
      /\ UNCHANGED <<ring, rhist>>
      /\ nsent' = IF branch \in {"closed", "memory"} THEN 0
                   ELSE IF branch = "canonicalize" THEN 1
                   ELSE 2
      /\ NoOutput
      /\ UNCHANGED <<conn_ssh, conn_sftp, life, dvars>>

(***************************************************************************)
(* libssh: sftp_seek(file, uint32_t), sftp_seek64(file, uint64_t) and      *)
(* sftp_tell64 set and read file->offset.  They fail only on a NULL file.  *)
(***************************************************************************)
sftp_seek(off) == off % SEEK32_MOD
sftp_seek64(off) == off

(***************************************************************************)
(* fseek(lfile, off, SEEK_SET); fwrite(buff, 1, n, lfile): data written    *)
(* at off, the file growing (holes read as 0) when off is past its end.    *)
(***************************************************************************)
WriteAt(f, off, data) ==
  [k \in 1 .. Max(Len(f), off + Len(data)) |->
     IF k > off /\ k <= off + Len(data) THEN data[k - off]
     ELSE IF k <= Len(f) THEN f[k]
     ELSE 0]

\* The local file reproduces the remote file.
SameAsRemote(f) == f = RemoteData(0, size)

(***************************************************************************)
(* History of the writes, kept per local offset and capped at HistCap so   *)
(* that it stays finite in runs that never end.                            *)
(***************************************************************************)
HistCap == 2
HistLen == LargeSize + (max_nreq + 1) * max_blen
HistOffs == 0 .. (HistLen - 1)

Count(h, off, n) ==
  [o \in HistOffs |->
     IF o >= off /\ o < off + n THEN Min(h[o] + 1, HistCap) ELSE h[o]]

(***************************************************************************)
(* libssh: sftp_async_read_begin(file, len) sends a read request for len   *)
(* bytes at file->offset and returns its identifier, advancing             *)
(* file->offset by len; it returns -1 and sends nothing when the request   *)
(* cannot be allocated or written to the channel.  Identifiers come from   *)
(* a counter and are only ever compared: the model takes the least         *)
(* positive number that no slot and no unanswered request holds.           *)
(***************************************************************************)
Held(k) == (\E i \in Slots : reqs[i] = k) \/ (\E q \in pending : q.id = k)

sftp_get_new_id == CHOOSE k \in 1 .. (2 * max_nreq + 1) :
                     ~Held(k) /\ \A j \in 1 .. (k - 1) : Held(j)

BeginId(ok) == IF ok THEN sftp_get_new_id ELSE -1

Sent(ok, off, len) ==
  /\ ok \/ nfail < MaxIssueFail
  /\ pending' = IF ok
                THEN pending \cup {[id |-> sftp_get_new_id, off |-> off, len |-> len]}
                ELSE pending
  /\ nfail' = IF ok THEN nfail ELSE nfail + 1

(***************************************************************************)
(* State on entering the transfer loop (line 1023): connection open,       *)
(* remote file open at offset 0, local file created empty, the loop        *)
(* variables initialised and the loop condition, true of them, tested.     *)
(***************************************************************************)
DInit ==
  /\ pc = "dispatch"
  /\ size \in FileSizes
  /\ blen = max_blen /\ nreq = 1 /\ reof = FALSE /\ rerr = FALSE
  /\ werr = FALSE /\ nbad = 0 /\ rlen = 0
  /\ ireq = 0
  /\ reqs = [i \in Slots |-> 0]
  /\ rsps = [i \in Slots |-> 0]
  /\ lens = [i \in Slots |-> 0]
  /\ offs = [i \in Slots |-> 0]
  /\ rc = SSH_OK
  /\ rfile = 0
  /\ errnum = SSH_FX_OK
  /\ pending = {}
  /\ lfile = <<>>
  /\ wrote = [o \in HistOffs |-> 0]
  /\ nfail = 0
  /\ SessionReady
  /\ UIdle

\* A variant of NotWaiting that takes every slot, waiting or not.
NotWaitingAny(i) == TRUE

\* No transfer under way: the session operations run one at a time.
DIdle ==
  /\ pc = "idle"
  /\ size = 0
  /\ blen = max_blen /\ nreq = 1 /\ reof = FALSE /\ rerr = FALSE
  /\ werr = FALSE /\ nbad = 0 /\ rlen = 0
  /\ ireq = 0
  /\ reqs = [i \in Slots |-> 0]
  /\ rsps = [i \in Slots |-> 0]
  /\ lens = [i \in Slots |-> 0]
  /\ offs = [i \in Slots |-> 0]
  /\ rc = SSH_OK
  /\ rfile = 0
  /\ errnum = SSH_FX_OK
  /\ pending = {}
  /\ lfile = <<>>
  /\ wrote = [o \in HistOffs |-> 0]
  /\ nfail = 0

\* if (reqs[ireq] < 0 || rsps[ireq] != SSH_AGAIN)
NotWaiting(i) == reqs[i] < 0 \/ rsps[i] # SSH_AGAIN

\* The offset a re-issued request is sent at: sftp_seek(rfile, offs[ireq]).
ReissueOffset(i) == sftp_seek(offs[i])

\* nbad after sending again the request of slot i, with result id.
ReissueBad(i, id) ==
  nbad - (IF reqs[i] < 0 THEN 1 ELSE 0) + (IF id < 0 THEN 1 ELSE 0)

DispatchGuard == pc = "dispatch" /\ ireq >= 0 /\ ~rerr

\* First loop, slot with a remaining length: send its request (again).
DispatchReissue(ok) ==
  /\ DispatchGuard
  /\ NotWaiting(ireq) /\ lens[ireq] # 0
  /\ rsps' = [rsps EXCEPT ![ireq] = SSH_AGAIN]
  /\ nbad' = ReissueBad(ireq, BeginId(ok))
  /\ reqs' = [reqs EXCEPT ![ireq] = BeginId(ok)]
  /\ Sent(ok, ReissueOffset(ireq), lens[ireq])
  /\ rfile' = sftp_seek64(rfile)
  /\ ireq' = ireq - 1
  /\ UNCHANGED <<svars, uvars, pc, size, blen, rlen, reof, rerr, werr, nreq, lens, offs,
                 rc, errnum, lfile, wrote>>

\* A variant of Removes without the test of reof.
RemovesOnBad == nbad # 0

\* else if (reof || nbad)
Removes == reof \/ nbad # 0

\* First loop, complete slot after end of file or with bad slots: drop it,
\* moving the last slot of the window into its place.
DispatchRemove ==
  /\ DispatchGuard
  /\ NotWaiting(ireq) /\ lens[ireq] = 0
  /\ Removes
  /\ nreq' = nreq - 1
  /\ rsps' = [rsps EXCEPT ![ireq] = rsps[nreq - 1]]
  /\ lens' = [lens EXCEPT ![ireq] = lens[nreq - 1]]
  /\ offs' = [offs EXCEPT ![ireq] = offs[nreq - 1]]
  /\ reqs' = [reqs EXCEPT ![ireq] = reqs[nreq - 1]]
  /\ ireq' = ireq - 1
  /\ UNCHANGED <<svars, uvars, pc, size, blen, rlen, reof, rerr, werr, nbad, rc, rfile,
                 errnum, pending, lfile, wrote, nfail>>

\* First loop, complete slot otherwise: a new request of blen bytes at the
\* current offset of the remote file.
DispatchFresh(ok) ==
  /\ DispatchGuard
  /\ NotWaiting(ireq) /\ lens[ireq] = 0
  /\ ~Removes
  /\ rsps' = [rsps EXCEPT ![ireq] = SSH_AGAIN]
  /\ lens' = [lens EXCEPT ![ireq] = blen]
  /\ offs' = [offs EXCEPT ![ireq] = rfile]
  /\ reqs' = [reqs EXCEPT ![ireq] = BeginId(ok)]
  /\ Sent(ok, rfile, blen)
  /\ rfile' = IF ok THEN rfile + blen ELSE rfile
  /\ nbad' = nbad + (IF BeginId(ok) < 0 THEN 1 ELSE 0)
  /\ ireq' = ireq - 1
  /\ UNCHANGED <<svars, uvars, pc, size, blen, rlen, reof, rerr, werr, nreq, rc, errnum,
                 lfile, wrote>>

\* First loop, slot waiting for its response: left alone.
DispatchSkip ==
  /\ DispatchGuard
  /\ ~NotWaiting(ireq)
  /\ ireq' = ireq - 1
  /\ UNCHANGED <<svars, uvars, pc, size, blen, rlen, reof, rerr, werr, nreq, nbad, reqs,
                 rsps, lens, offs, rc, rfile, errnum, pending,
                 lfile, wrote, nfail>>

\* End of the first loop.
DispatchEnd ==
  /\ pc = "dispatch" /\ (ireq < 0 \/ rerr)
  /\ pc' = "collect"
  /\ ireq' = nreq - 1
  /\ UNCHANGED <<svars, uvars, size, blen, rlen, reof, rerr, werr, nreq, nbad, reqs, rsps,
                 lens, offs, rc, rfile, errnum, pending, lfile,
                 wrote, nfail>>

(***************************************************************************)
(* Second loop.  libssh: sftp_async_read(file, buff, size, id) returns     *)
(*   SSH_AGAIN when the response to request id has not arrived,            *)
(*   the number of bytes of a data response (at least one byte, at most    *)
(*     the length requested and what the file holds from that offset),     *)
(*   0 for the status SSH_FX_EOF (request at or past the end of the file), *)
(*     recording it in sftp->errnum,                                       *)
(*   SSH_ERROR for any other status, recording it in sftp->errnum,         *)
(*   SSH_ERROR when the channel fails, leaving sftp->errnum as it was.     *)
(* A response is taken off the queue by the call that returns it.  The     *)
(* seeks around the call leave file->offset as it was.                     *)
(***************************************************************************)
CollectGuard == pc = "collect" /\ ireq >= 0 /\ ~rerr /\ ~werr

\* The request the identifier of slot i stands for, if still unanswered.
Request(i) == {q \in pending : q.id = reqs[i]}

\* if (reqs[ireq] >= 0) fails: a slot whose request was not sent.
CollectSkip ==
  /\ CollectGuard
  /\ reqs[ireq] < 0
  /\ ireq' = ireq - 1
  /\ UNCHANGED <<svars, uvars, pc, size, blen, rlen, reof, rerr, werr, nreq, nbad, reqs,
                 rsps, lens, offs, rc, rfile, errnum, pending,
                 lfile, wrote, nfail>>

\* The response is not ready.
CollectAgain ==
  /\ CollectGuard
  /\ reqs[ireq] >= 0
  /\ rsps' = [rsps EXCEPT ![ireq] = SSH_AGAIN]
  /\ ireq' = ireq - 1
  /\ UNCHANGED <<svars, uvars, pc, size, blen, rlen, reof, rerr, werr, nreq, nbad, reqs,
                 lens, offs, rc, rfile, errnum, pending, lfile,
                 wrote, nfail>>

\* A variant of NewRlen that keeps the last short response, not the largest.
NewRlenLast(n, len) == IF n < blen /\ blen <= len THEN n ELSE rlen

\* rlen = (rlen < rsps && rsps < blen && blen <= lens) ? rsps : rlen
NewRlen(n, len) == IF rlen < n /\ n < blen /\ blen <= len THEN n ELSE rlen

(***************************************************************************)
(* The three calls that write a block of n bytes to the local file         *)
(* (lines 1066-1068): "ok"; "seek", the first fseek fails and nothing is   *)
(* written; "short", fwrite writes one byte less than n; "end", the block  *)
(* is written and the fseek to the end of the file fails.                  *)
(***************************************************************************)
WriteResults == {"ok", "seek", "short", "end"}

Written(n, w) == IF w = "seek" THEN 0 ELSE IF w = "short" THEN n - 1 ELSE n

\* offs[ireq] += rsps[ireq]; lens[ireq] -= rsps[ireq]
Advance(i, n) ==
  /\ offs' = [offs EXCEPT ![i] = offs[i] + n]
  /\ lens' = [lens EXCEPT ![i] = lens[i] - n]

(***************************************************************************)
(* The lengths of the data response to a request of len bytes when the     *)
(* file holds avail bytes from its offset: all the server can give, half   *)
(* the length requested, or a single byte.                                 *)
(***************************************************************************)
ServerLengths(len, avail) ==
  {n \in {Min(len, avail), len \div 2, 1} : n >= 1 /\ n <= Min(len, avail)}

\* A data response of n bytes, written to the local file with result w.
CollectData(n, w) ==
  /\ CollectGuard
  /\ reqs[ireq] >= 0
  /\ \E q \in Request(ireq) :
       /\ q.off < size
       /\ n \in ServerLengths(q.len, size - q.off) /\ n <= lens[ireq]
       /\ pending' = pending \ {q}
       /\ lfile' = IF Written(n, w) > 0
                   THEN WriteAt(lfile, offs[ireq],
                                RemoteData(q.off, Written(n, w)))
                   ELSE lfile
  /\ wrote' = Count(wrote, offs[ireq], Written(n, w))
  /\ rsps' = [rsps EXCEPT ![ireq] = n]
  /\ werr' = (w # "ok")
  /\ rlen' = NewRlen(n, lens[ireq])
  /\ Advance(ireq, n)
  /\ ireq' = ireq - 1
  /\ UNCHANGED <<svars, uvars, pc, size, blen, reof, rerr, nreq, nbad, reqs, rc, rfile,
                 errnum, nfail>>

\* The status SSH_FX_EOF: the request was at or past the end of the file.
CollectEof ==
  /\ CollectGuard
  /\ reqs[ireq] >= 0
  /\ \E q \in Request(ireq) :
       /\ q.off >= size
       /\ pending' = pending \ {q}
  /\ rsps' = [rsps EXCEPT ![ireq] = 0]
  /\ lens' = [lens EXCEPT ![ireq] = 0]
  /\ reof' = TRUE
  /\ errnum' = SSH_FX_EOF
  /\ ireq' = ireq - 1
  /\ UNCHANGED <<svars, uvars, pc, size, blen, rlen, rerr, werr, nreq, nbad, reqs, offs,
                 rc, rfile, lfile, wrote, nfail>>

\* rerr after sftp_async_read returned r: any result that is neither a
\* length nor SSH_AGAIN is fatal (line 1075).
Fatal(r) == r < 0 /\ r # SSH_AGAIN

\* A failure status of the server for the request.
CollectStatus ==
  /\ CollectGuard
  /\ reqs[ireq] >= 0
  /\ \E q \in Request(ireq) : pending' = pending \ {q}
  /\ rsps' = [rsps EXCEPT ![ireq] = SSH_ERROR]
  /\ errnum' = SSH_FX_FAILURE
  /\ rerr' = Fatal(SSH_ERROR)
  /\ ireq' = ireq - 1
  /\ UNCHANGED <<svars, uvars, pc, size, blen, rlen, reof, werr, nreq, nbad, reqs, lens,
                 offs, rc, rfile, lfile, wrote, nfail>>

\* The channel fails while waiting for the response.
CollectLost ==
  /\ CollectGuard
  /\ reqs[ireq] >= 0
  /\ rsps' = [rsps EXCEPT ![ireq] = SSH_ERROR]
  /\ rerr' = Fatal(SSH_ERROR)
  /\ ireq' = ireq - 1
  /\ UNCHANGED <<svars, uvars, pc, size, blen, rlen, reof, werr, nreq, nbad, reqs, lens,
                 offs, rc, rfile, errnum, pending, lfile, wrote,
                 nfail>>

\* A variant of Grow without the test of nreq against max_nreq.
GrowUnbounded == IF nbad > 0 \/ reof THEN 0 ELSE 1

\* A variant of Grow without the test of nbad.
GrowWithBad == IF reof \/ nreq >= max_nreq THEN 0 ELSE 1

\* nreq += (nbad > 0 || reof || nreq >= max_nreq) ? 0 : 1
Grow == IF nbad > 0 \/ reof \/ nreq >= max_nreq THEN 0 ELSE 1

\* A variant of Shrink without the test of rlen against blen.
ShrinkAnyShort == IF 0 < rlen /\ blen > min_blen THEN 2 ELSE 1

\* A variant of Shrink without the test of blen against min_blen.
ShrinkUnguarded == IF 0 < rlen /\ rlen < blen THEN 2 ELSE 1

\* blen /= (0 < rlen && rlen < blen && blen > min_blen) ? 2 : 1
Shrink == IF 0 < rlen /\ rlen < blen /\ blen > min_blen THEN 2 ELSE 1

\* A variant of LoopCond without the test of werr.
LoopCondNoWerr(n) == n > nbad /\ ~rerr

\* (nreq > nbad) && (! rerr) && (! werr)
LoopCond(n) == n > nbad /\ ~rerr /\ ~werr

\* End of the second loop, then the increment and the test of the transfer
\* loop (lines 1024-1026): the next cycle, or the end of the loop.
CycleEnd ==
  /\ pc = "collect" /\ (ireq < 0 \/ rerr \/ werr)
  /\ nreq' = nreq + Grow
  /\ blen' = blen \div Shrink
  /\ IF LoopCond(nreq + Grow)
     THEN pc' = "dispatch" /\ ireq' = nreq + Grow - 1
     ELSE pc' = "exit" /\ ireq' = ireq
  /\ UNCHANGED <<svars, uvars, size, rlen, reof, rerr, werr, nbad, reqs, rsps, lens, offs,
                 rc, rfile, errnum, pending, lfile, wrote, nfail>>

(***************************************************************************)
(* After the loop (lines 1082-1122).  fclose returns 0 or EOF; sftp_close  *)
(* returns SSH_OK, or SSH_ERROR after a failure status (recorded in        *)
(* sftp->errnum) or a failure of the channel (sftp->errnum left as it      *)
(* was).                                                                   *)
(***************************************************************************)
CloseResults == {"ok", "status", "lost"}

ReturnCode(fclosed, closed) ==
  IF werr THEN SSH_ERROR
  ELSE IF rerr THEN errnum
  ELSE IF nbad > 0 THEN errnum
  ELSE IF ~fclosed THEN SSH_ERROR
  ELSE IF closed = "status" THEN SSH_FX_FAILURE
  ELSE IF closed = "lost" THEN errnum
  ELSE SSH_OK

Return(fclosed, closed) ==
  /\ pc = "exit"
  /\ rc' = ReturnCode(fclosed, closed)
  /\ errnum' = IF ~werr /\ ~rerr /\ nbad <= 0 /\ fclosed /\ closed = "status"
               THEN SSH_FX_FAILURE ELSE errnum
  /\ pc' = "done"
  /\ UNCHANGED <<svars, uvars, size, blen, rlen, reof, rerr, werr, nreq, nbad, ireq, reqs,
                 rsps, lens, offs, rfile, pending, lfile, wrote,
                 nfail>>

DNext ==
  \/ \E ok \in BOOLEAN : DispatchReissue(ok)
  \/ DispatchRemove
  \/ \E ok \in BOOLEAN : DispatchFresh(ok)
  \/ DispatchSkip
  \/ DispatchEnd
  \/ CollectSkip
  \/ CollectAgain
  \/ \E n \in 1 .. max_blen, w \in WriteResults : CollectData(n, w)
  \/ CollectEof
  \/ CollectStatus
  \/ CollectLost
  \/ CycleEnd
  \/ \E fclosed \in BOOLEAN, closed \in CloseResults : Return(fclosed, closed)

Spec == DInit /\ [][DNext]_vars

(***************************************************************************)
(* The session operations, called in any order on one connection handle.   *)
(***************************************************************************)
SInit == SessionNew /\ DIdle /\ UIdle

SNext ==
  \/ \E step \in OpenSteps, home \in Dirs,
        code \in {SSH_ERROR, SSH_AUTH_PARTIAL} \cup SshErrorCodes :
        open_sftp_connection(step, home, code)
  \/ close_sftp_connection
  \/ \E path \in PathArgs, alloc \in BOOLEAN, canon \in BOOLEAN,
        stat \in BOOLEAN, code \in SshErrorCodes :
        cwd_sftp_connection(path, alloc, canon, stat, code)

SpecSession == SInit /\ [][SNext]_vars

(***************************************************************************)
(* A download of a file larger than a 32-bit offset reaches, taken up at   *)
(* the start of its third cycle, when the server has answered the requests *)
(* of the first two cycles in full: slot 0 has read [0, max_blen) and then *)
(* [2 * max_blen, 3 * max_blen), slot 1 has read [max_blen, 2 * max_blen), *)
(* and slot 2 has just entered the window.                                 *)
(***************************************************************************)
LargeStart == 3 * max_blen

LInit ==
  /\ pc = "dispatch"
  /\ size = LargeSize
  /\ blen = max_blen /\ nreq = 3 /\ reof = FALSE /\ rerr = FALSE
  /\ werr = FALSE /\ nbad = 0 /\ rlen = 0
  /\ ireq = 2
  /\ reqs = [i \in Slots |-> IF i = 0 THEN 3 ELSE IF i = 1 THEN 2 ELSE 0]
  /\ rsps = [i \in Slots |-> IF i <= 1 THEN max_blen ELSE 0]
  /\ lens = [i \in Slots |-> 0]
  /\ offs = [i \in Slots |-> IF i = 0 THEN 3 * max_blen
                             ELSE IF i = 1 THEN 2 * max_blen ELSE 0]
  /\ rc = SSH_OK
  /\ rfile = LargeStart
  /\ errnum = SSH_FX_OK
  /\ pending = {}
  /\ lfile = RemoteData(0, LargeStart)
  /\ wrote = [o \in HistOffs |-> IF o < LargeStart THEN 1 ELSE 0]
  /\ nfail = 0
  /\ SessionReady
  /\ UIdle

\* The large download with every request sent, no failed read and every
\* local write succeeding; the server answers in full, in part or not yet,
\* in any order.
LNext ==
  \/ DispatchReissue(TRUE)
  \/ DispatchRemove
  \/ DispatchFresh(TRUE)
  \/ DispatchSkip
  \/ DispatchEnd
  \/ CollectAgain
  \/ \E n \in 1 .. max_blen : CollectData(n, "ok")
  \/ CollectEof
  \/ CycleEnd
  \/ \E fclosed \in BOOLEAN, closed \in CloseResults : Return(fclosed, closed)

SpecLarge == LInit /\ [][LNext]_vars

(***************************************************************************)
(* Downloads from a server that answers every read request with half the   *)
(* length requested (one byte of a request of one byte, and no more than   *)
(* the file holds), in any order; nothing fails.                           *)
(***************************************************************************)
HalfSizes == {max_blen + 1, max_nreq * max_blen + 1}

HInit ==
  /\ pc = "dispatch"
  /\ size \in HalfSizes
  /\ blen = max_blen /\ nreq = 1 /\ reof = FALSE /\ rerr = FALSE
  /\ werr = FALSE /\ nbad = 0 /\ rlen = 0
  /\ ireq = 0
  /\ reqs = [i \in Slots |-> 0]
  /\ rsps = [i \in Slots |-> 0]
  /\ lens = [i \in Slots |-> 0]
  /\ offs = [i \in Slots |-> 0]
  /\ rc = SSH_OK
  /\ rfile = 0
  /\ errnum = SSH_FX_OK
  /\ pending = {}
  /\ lfile = <<>>
  /\ wrote = [o \in HistOffs |-> 0]
  /\ nfail = 0
  /\ SessionReady
  /\ UIdle

HalfLength(q) == Min(Max(1, q.len \div 2), size - q.off)

CollectHalf ==
  /\ CollectGuard
  /\ \E q \in Request(ireq) : CollectData(HalfLength(q), "ok")

HNext ==
  \/ DispatchReissue(TRUE)
  \/ DispatchRemove
  \/ DispatchFresh(TRUE)
  \/ DispatchSkip
  \/ DispatchEnd
  \/ CollectAgain
  \/ CollectHalf
  \/ CollectEof
  \/ CycleEnd
  \/ Return(TRUE, "ok")

SpecHalf == HInit /\ [][HNext]_vars

\* The same, with a client that keeps running and a server that answers:
\* a request polled again and again is answered in the end.
SpecHalfFair ==
  SpecHalf /\ WF_vars(HNext) /\ SF_vars(CollectHalf) /\ SF_vars(CollectEof)

(***************************************************************************)
(* Properties of the download.                                             *)
(***************************************************************************)
\* The call has returned the status its callers take for success
\* (they test rc != SSH_OK).
Success == pc = "done" /\ rc = SSH_OK

\* The slots inside the window.
Window == 0 .. (nreq - 1)

\* The transfer loop is running and nothing has failed fatally.
Running == pc \in {"dispatch", "collect"} /\ ~rerr /\ ~werr

\* C1: whenever the download returns success, the local file has exactly
\* the size of the remote file and the same byte at every offset, for
\* every file size and every order of full, partial and end-of-file
\* responses.
C1_ByteExact == Success => SameAsRemote(lfile)

\* C2: once the poll of a slot has returned a fatal read error, no request
\* is sent, no slot is polled, nothing is written to the local file, and
\* the call returns a status other than success.
C2_FatalReadAborts ==
  [][rerr => /\ pending' = pending /\ nfail' = nfail
             /\ reqs' = reqs /\ rsps' = rsps /\ lens' = lens /\ offs' = offs
             /\ lfile' = lfile /\ wrote' = wrote
             /\ (pc' = "done" => rc' # SSH_OK)]_vars

\* C5: whenever the download returns success, the end of the file has been
\* observed, no slot of the window has a remaining length, and the count
\* of bad slots is zero.
C5_SuccessMeansComplete ==
  Success => (reof /\ nbad = 0 /\ \A i \in Window : lens[i] = 0)

\* The download has come to its end with nothing failed: the end of the
\* file seen, and no read error, write error or bad slot left.
Completed == Success /\ reof /\ ~rerr /\ ~werr /\ nbad = 0

\* C6: when a download completes, every offset below the size of the file
\* has been written exactly once and no offset at or past it has been
\* written, also when a request that could not be sent was sent later.
C6_ExactlyOnce ==
  Completed => \A o \in HistOffs : wrote[o] = IF o < size THEN 1 ELSE 0

\* Slot i is in the window with bytes still to come.
Live(i) == i \in Window /\ lens[i] > 0

\* Slot i is in the window, waiting for the response to a request sent.
Outstanding(i) == Live(i) /\ reqs[i] >= 0 /\ rsps[i] = SSH_AGAIN

Disjoint(i, j) ==
  offs[i] + lens[i] <= offs[j] \/ offs[j] + lens[j] <= offs[i]

\* C7: while the transfer runs, the pending ranges [offs, offs + lens) of
\* the slots in the window are pairwise disjoint, and no two slots of the
\* window wait for the same request identifier.
C7_SlotsDisjoint ==
  Running =>
    \A i, j \in Slots :
      /\ (i # j /\ Live(i) /\ Live(j)) => Disjoint(i, j)
      /\ (i # j /\ Outstanding(i) /\ Outstanding(j)) => reqs[i] # reqs[j]

C4_ChunkBounds ==
  /\ [](min_blen <= blen /\ blen <= max_blen)
  /\ [][blen' <= blen]_vars

\* blen has come down to min_blen and a shorter response has been seen:
\* only the test against min_blen keeps it from being halved again.
C4_Witness == Running /\ blen = min_blen /\ 0 < rlen /\ rlen < blen

\* A step of the second loop that takes a data response of n bytes, shorter
\* than the remaining length of the slot, with the local write succeeding.
Partial(n) == CollectData(n, "ok") /\ n < lens[ireq]

\* C8: a response of n bytes, 0 < n < r, to a slot (o, r) is written at
\* offset o of the local file, the slot becomes (o + n, r - n), no error
\* flag is set, and the request then sent for the slot asks for exactly
\* r - n bytes at offset o + n.
C8_PartialResponse ==
  /\ [][\A n \in 1 .. max_blen :
          Partial(n) =>
            /\ wrote' = Count(wrote, offs[ireq], n)
            /\ offs'[ireq] = offs[ireq] + n
            /\ lens'[ireq] = lens[ireq] - n
            /\ ~rerr' /\ ~werr']_vars
  /\ [](Running =>
          \A i \in Slots :
            Outstanding(i) =>
              \A q \in Request(i) : q.off = offs[i] /\ q.len = lens[i])

\* A step of the first loop that sends the request of a slot again.
Reissues == \E ok \in BOOLEAN : DispatchReissue(ok)

\* C9, as stated: a request is sent again only for the remainder of a
\* short response, never for a slot whose request could not be sent.
C9_ReissueOnlyShort ==
  [][Reissues => (reqs[ireq] >= 0 /\ rsps[ireq] > 0)]_vars

\* C9: a request is sent again for a slot with bytes remaining whose last
\* response was short, and also for a slot whose request could not be
\* sent (the same range, in a later cycle); a slot waiting for its response
\* is left alone, and after a fatal read error or a failed local write no
\* request is sent at all.
C9_ReissueShortOrUnsent ==
  /\ [][Reissues => (lens[ireq] > 0 /\ (reqs[ireq] < 0 \/ rsps[ireq] > 0))]_vars
  /\ [][(rerr \/ werr) => (pending' = pending /\ nfail' = nfail)]_vars

\* A request that could not be sent has been sent again, with success.
C9_Witness == Running /\ nfail > 0 /\ nbad = 0 /\ \A i \in Window : reqs[i] >= 0

\* C10: after a call of cwd_sftp_connection that fails (session not open,
\* path not resolved, canonical path not obtained, stat failed, or target
\* not a directory) the working directory is the one before the call, and
\* for a target that is not a directory the status is not success.
C10_FailedCwdKeepsPwd ==
  (call.op = "cwd" /\ call.branch # "ok") =>
    /\ conn_pwd = pwd0
    /\ (call.branch = "notdir" => status # SSH_OK)

\* A change to a regular file has been refused on an open session.
C10_Witness ==
  /\ call.op = "cwd" /\ call.branch = "notdir"
  /\ conn_sftp /\ conn_pwd # NULL /\ conn_pwd = pwd0
  /\ status = SSH_ERROR

(***************************************************************************)
(* expand_path on its own: the arguments are drawn at the start, the step  *)
(* applies the function.  path is NULL when mxArrayToString gave no        *)
(* string; pwd is a directory name as the server gives it, with or without *)
(* a slash at its end.                                                     *)
(***************************************************************************)
PathInputs == {NULL} \cup {Str(p) : p \in PathArgs}
PwdInputs == {Str(d) : d \in Dirs \cup {<<"/", "a", "/">>}}

PInit ==
  /\ SessionNew /\ DIdle
  /\ fcall \in {Str([fn |-> "expand_path", path |-> p, pwd |-> d, alloc |-> a]) :
                   p \in PathInputs, d \in PwdInputs, a \in BOOLEAN}
  /\ fret = NULL /\ list = NULL /\ put = PutIdle /\ nsent = 0
  /\ ring = NULL /\ rhist = NULL

ApplyExpandPath ==
  /\ fcall # NULL /\ fret = NULL
  /\ Val(fcall).fn = "expand_path"
  /\ fret' = Str(expand_path(Val(fcall).path, Val(fcall).pwd, Val(fcall).alloc))
  /\ UNCHANGED <<dvars, svars, fcall, list, put, nsent, ring, rhist>>

PNext == ApplyExpandPath

SpecPath == PInit /\ [][PNext]_vars

\* expand_path has returned, and memory was there for its result.
Expanded == fret # NULL /\ Val(fcall).fn = "expand_path" /\ Val(fcall).alloc

\* d without the slash at its end, when it has one.
Stripped(d) == IF Len(d) > 0 /\ d[Len(d)] = "/" THEN SubSeq(d, 1, Len(d) - 1) ELSE d

\* C11: a non-empty relative path p resolves to the working directory d,
\* one '/' and p, whether or not d ends in '/'; a path that begins with
\* '/' resolves to itself.
C11_ExpandPath ==
  Expanded /\ Val(fcall).path # NULL /\ Val(Val(fcall).path) # <<>> =>
    LET p == Val(Val(fcall).path)
        d == Val(Val(fcall).pwd)
    IN  IF p[1] = "/" THEN Val(fret) = Str(p)
        ELSE Val(fret) = Str(Stripped(d) \o <<"/">> \o p)

\* A relative path was resolved against a directory that ends in '/'.
C11_Witness ==
  /\ Expanded /\ Val(fcall).path = Str(<<"a">>)
  /\ Val(fcall).pwd = Str(<<"/", "a", "/">>)
  /\ Val(fret) = Str(<<"/", "a", "/", "a">>)

\* C12 as stated: resolving the empty path gives no path at all.
C12_EmptyPathNoPath ==
  fret # NULL /\ Val(fcall).fn = "expand_path" /\ Val(fcall).path = Str(<<>>) =>
    Val(fret) = NULL

\* C12: resolving an absent path (NULL) gives no path; the empty string
\* resolves to the working directory followed by one '/'.
C12_AbsentPathNoPath ==
  fret # NULL /\ Val(fcall).fn = "expand_path" =>
    /\ Val(fcall).path = NULL => Val(fret) = NULL
    /\ Val(fcall).path = Str(<<>>) /\ Val(fcall).alloc =>
         Val(fret) = Str(Stripped(Val(Val(fcall).pwd)) \o <<"/">>)

\* The empty string was resolved, and a path came back.
C12_Witness ==
  /\ Expanded /\ Val(fcall).path = Str(<<>>)
  /\ Val(fcall).pwd = Str(<<"/", "a">>)
  /\ Val(fret) = Str(<<"/", "a", "/">>)

(***************************************************************************)
(* The name filters (lines 102-142).  A result is the truth of the int the *)
(* C function returns.  The do-while of the '*' case is StarLoop: it tries *)
(* the rest of the pattern at str, and moves str on one character while    *)
(* there is one and no match was found.                                    *)
(***************************************************************************)
exclude_directory_entry(name) ==
  IF name = NULL THEN FALSE ELSE Val(name) # <<>> /\ Val(name)[1] = "."

RECURSIVE glob_match(_, _)

\* The '*' case with a single pass through the body of its loop.
StarOnce(glob, str) == glob_match(Tail(glob), str)

RECURSIVE StarLoop(_, _)
StarLoop(glob, str) ==
  LET match == glob_match(Tail(glob), str)
  IN  IF str # <<>> /\ ~match THEN StarLoop(glob, Tail(str)) ELSE match

glob_match(glob, str) ==
  IF glob = <<>> THEN str = <<>>
  ELSE IF Head(glob) = "*" THEN StarLoop(glob, str)
  ELSE IF Head(glob) = "?" /\ str # <<>> THEN glob_match(Tail(glob), Tail(str))
  ELSE IF str # <<>> /\ Head(glob) = Head(str)
       THEN glob_match(Tail(glob), Tail(str))
  ELSE FALSE

\* glob_name_match without its two tests of a leading '.'.
GlobNameMatchPlain(glob, name) ==
  IF glob = NULL \/ name = NULL THEN FALSE
  ELSE glob_match(Val(glob), Val(name))

glob_name_match(glob, name) ==
  IF glob = NULL \/ name = NULL THEN FALSE
  ELSE IF Val(glob) # <<>> /\ Head(Val(glob)) = "*"
          /\ Val(name) # <<>> /\ Head(Val(name)) = "." THEN FALSE
  ELSE IF Val(glob) # <<>> /\ Head(Val(glob)) = "?"
          /\ Val(name) # <<>> /\ Head(Val(name)) = "." THEN FALSE
  ELSE glob_match(Val(glob), Val(name))

\* Patterns and names: all strings up to a length over a small alphabet.
MaxGlob == 3
MaxName == 3
GlobChars == {"a", ".", "*", "?"}
NameChars == {"a", "."}
Strings(A, n) == UNION {[1 .. k -> A] : k \in 0 .. n}
Globs == Strings(GlobChars, MaxGlob)
Names == Strings(NameChars, MaxName)

GInit ==
  /\ SessionNew /\ DIdle
  /\ fcall \in
       {Str([fn |-> "glob_match", glob |-> Str(g), name |-> Str(n)]) :
          g \in Globs, n \in Names}
       \cup
       {Str([fn |-> "glob_name_match", glob |-> g, name |-> n]) :
          g \in {NULL} \cup {Str(x) : x \in Globs},
          n \in {NULL} \cup {Str(x) : x \in Names}}
  /\ fret = NULL /\ list = NULL /\ put = PutIdle /\ nsent = 0
  /\ ring = NULL /\ rhist = NULL

ApplyGlobMatch ==
  /\ fcall # NULL /\ fret = NULL
  /\ Val(fcall).fn = "glob_match"
  /\ fret' = Str(glob_match(Val(Val(fcall).glob), Val(Val(fcall).name)))
  /\ UNCHANGED <<dvars, svars, fcall, list, put, nsent, ring, rhist>>

ApplyGlobNameMatch ==
  /\ fcall # NULL /\ fret = NULL
  /\ Val(fcall).fn = "glob_name_match"
  /\ fret' = Str(glob_name_match(Val(fcall).glob, Val(fcall).name))
  /\ UNCHANGED <<dvars, svars, fcall, list, put, nsent, ring, rhist>>

GNext == ApplyGlobMatch \/ ApplyGlobNameMatch

SpecGlob == GInit /\ [][GNext]_vars

(***************************************************************************)
(* What a pattern produces.  Ends(g, s, i) is the set of lengths k such    *)
(* that the first i characters of g produce the first k characters of s:   *)
(* a '*' adds any run, a '?' one character, any other character itself.    *)
(***************************************************************************)
RECURSIVE Ends(_, _, _)
Ends(g, s, i) ==
  IF i = 0 THEN {0}
  ELSE LET before == Ends(g, s, i - 1)
       IN  IF g[i] = "*" THEN {k \in 0 .. Len(s) : \E j \in before : j <= k}
           ELSE IF g[i] = "?" THEN {j + 1 : j \in {h \in before : h < Len(s)}}
           ELSE {j + 1 : j \in {h \in before : h < Len(s) /\ s[h + 1] = g[i]}}

Produces(g, s) == Len(s) \in Ends(g, s, Len(g))

\* C15: glob_match(pattern, name) is true exactly when the pattern produces
\* the whole name, each '*' replaced by a run of characters that may be
\* empty, each '?' by one character, every other character standing for
\* itself.
C15_GlobMatch ==
  fret # NULL /\ Val(fcall).fn = "glob_match" =>
    (Val(fret) <=> Produces(Val(Val(fcall).glob), Val(Val(fcall).name)))

\* A match found only after the '*' took two characters, the tries with
\* none and with one having failed.
C15_Witness ==
  /\ fret # NULL /\ Val(fcall).fn = "glob_match"
  /\ Val(fcall).glob = Str(<<"*", "a">>)
  /\ Val(fcall).name = Str(<<"a", ".", "a">>)
  /\ Val(fret) = TRUE

\* C16: a pattern that begins with '*' or '?' does not match a name that
\* begins with '.'; for every other pattern and name glob_name_match gives
\* what glob_match gives.
C16_GlobNameMatch ==
  fret # NULL /\ Val(fcall).fn = "glob_name_match"
  /\ Val(fcall).glob # NULL /\ Val(fcall).name # NULL =>
    LET g == Val(Val(fcall).glob)
        n == Val(Val(fcall).name)
    IN  IF g # <<>> /\ g[1] \in {"*", "?"} /\ n # <<>> /\ n[1] = "."
        THEN Val(fret) = FALSE
        ELSE Val(fret) = glob_match(g, n)

\* A hidden name that the bare pattern would match was refused.
C16_Witness ==
  /\ fret # NULL /\ Val(fcall).fn = "glob_name_match"
  /\ Val(fcall).glob = Str(<<"*", "a">>)
  /\ Val(fcall).name = Str(<<".", "a">>)
  /\ Val(fret) = FALSE
  /\ glob_match(<<"*", "a">>, <<".", "a">>)

(***************************************************************************)
(* libssh: ssh_dirname and ssh_basename (misc.c) on a string; alloc tells  *)
(* whether memory is there for the copy.                                   *)
(***************************************************************************)
RECURSIVE SkipSlashes(_, _)
SkipSlashes(s, len) ==
  IF len > 0 /\ s[len] = "/" THEN SkipSlashes(s, len - 1) ELSE len

RECURSIVE SkipName(_, _)
SkipName(s, len) ==
  IF len > 0 /\ s[len] # "/" THEN SkipName(s, len - 1) ELSE len

ssh_dirname(s, alloc) ==
  LET l1 == SkipSlashes(s, Len(s))
      l2 == SkipName(s, l1)
      l3 == SkipSlashes(s, l2)
  IN  IF ~alloc THEN NULL
      ELSE IF s = <<>> THEN Str(<<".">>)
      ELSE IF l1 = 0 THEN Str(<<"/">>)
      ELSE IF l2 = 0 THEN Str(<<".">>)
      ELSE IF l2 = 1 THEN Str(<<"/">>)
      ELSE Str(SubSeq(s, 1, l3))

ssh_basename(s, alloc) ==
  LET l1 == SkipSlashes(s, Len(s))
      l2 == SkipName(s, l1)
  IN  IF ~alloc THEN NULL
      ELSE IF s = <<>> THEN Str(<<".">>)
      ELSE IF l1 = 0 THEN Str(<<"/">>)
      ELSE IF l2 > 0 THEN Str(SubSeq(s, l2 + 1, l1))
      ELSE Str(s)

(***************************************************************************)
(* lsdir_sftp_connection and lsglob_sftp_connection (lines 610-788).       *)
(* The environment of a call:                                              *)
(*   mem      the allocation that finds no memory, if any,                 *)
(*   opened   the answer to sftp_opendir,                                  *)
(*   entries  the names sftp_readdir hands out, in order, before it        *)
(*            returns NULL,                                                *)
(*   stop     why it returns NULL: the status SSH_FX_EOF ("eof", the only  *)
(*            case that sets dir->eof), another status, or a failure of    *)
(*            the channel ("lost"),                                        *)
(*   afail    the append that finds no memory (0: none),                   *)
(*   closed   the answer to sftp_closedir.                                 *)
(* A status message sets sftp->errnum to its code; a failure of the        *)
(* channel leaves sftp->errnum as it was.                                  *)
(***************************************************************************)
MaxEntries == 3
EntryNames == {<<".">>, <<".", ".">>, <<"a">>, <<".", "a">>, <<"a", "a">>}
Entries == Strings(EntryNames, MaxEntries)
Answers == {"ok", "status", "lost"}
Stops == {"eof", "status", "lost"}
MemSteps == {"none", "expand_path", "ssh_dirname", "ssh_basename", "make"}
ListPaths == {<<"a">>, <<"/">>, <<"/", "a">>, <<>>}
GlobArgs == {<<"*">>, <<"*", "a">>, <<".", "*">>, <<"?">>, <<"a">>,
             <<"a", "/", "*">>, <<"/", "a", "/", ".", "?">>}

ErrAfterStatus(e, answer) ==
  IF answer = "status" THEN SSH_FX_FAILURE
  ELSE IF answer = "ok" THEN SSH_FX_OK
  ELSE e

ErrAfterRead(e, stop) ==
  IF stop = "eof" THEN SSH_FX_EOF
  ELSE IF stop = "status" THEN SSH_FX_FAILURE
  ELSE e

addtail_sftp_attributes_list(l, atts) == Append(l, atts)

\* The while loop of lines 654-657: acc is the list so far and n the
\* number of appends done.  atts tells whether the loop ended with an entry
\* in hand, which is the case when its append failed.
RECURSIVE LsdirLoop(_, _, _, _)
LsdirLoop(entries, acc, n, afail) ==
  IF entries = <<>> THEN [list |-> acc, atts |-> FALSE, rest |-> <<>>]
  ELSE IF exclude_directory_entry(Str(Head(entries)))
       THEN LsdirLoop(Tail(entries), acc, n, afail)
  ELSE IF n + 1 = afail
       THEN [list |-> acc, atts |-> TRUE, rest |-> Tail(entries)]
  ELSE LsdirLoop(Tail(entries),
                 addtail_sftp_attributes_list(acc, Head(entries)), n + 1, afail)

\* The while loop of lines 750-753.
RECURSIVE LsglobLoop(_, _, _, _, _)
LsglobLoop(pattern, entries, acc, n, afail) ==
  IF entries = <<>> THEN [list |-> acc, atts |-> FALSE, rest |-> <<>>]
  ELSE IF ~glob_name_match(pattern, Str(Head(entries)))
       THEN LsglobLoop(pattern, Tail(entries), acc, n, afail)
  ELSE IF n + 1 = afail
       THEN [list |-> acc, atts |-> TRUE, rest |-> Tail(entries)]
  ELSE LsglobLoop(pattern, Tail(entries),
                  addtail_sftp_attributes_list(acc, Head(entries)), n + 1, afail)

(***************************************************************************)
(* The path taken through either function:                                 *)
(*   "closed"   conn->sftp is NULL,                                        *)
(*   "memory"   expand_path, ssh_dirname, ssh_basename or                  *)
(*              make_sftp_attributes_list returns NULL,                    *)
(*   "opendir"  sftp_opendir returns NULL,                                 *)
(*   "append"   the loop ends with an entry that could not be appended,    *)
(*   "read"     the loop ends and sftp_dir_eof(dir) is false,              *)
(*   "close"    sftp_closedir fails,                                       *)
(*   "ok"       *list is assigned.                                         *)
(***************************************************************************)
ListBranch(mem, opened, atts, stop, closed) ==
  IF ~conn_sftp THEN "closed"
  ELSE IF mem \in {"expand_path", "ssh_dirname", "ssh_basename"} THEN "memory"
  ELSE IF opened # "ok" THEN "opendir"
  ELSE IF mem = "make" THEN "memory"
  ELSE IF atts THEN "append"
  ELSE IF stop # "eof" THEN "read"
  ELSE IF closed # "ok" THEN "close"
  ELSE "ok"

\* sftp->errnum as the branch reads it with sftp_get_error.
ListErrnum(branch, opened, stop, closed) ==
  IF branch = "opendir" THEN ErrAfterStatus(errnum, opened)
  ELSE IF branch = "read" THEN ErrAfterRead(errnum, stop)
  ELSE IF branch = "close"
       THEN ErrAfterStatus(ErrAfterRead(errnum, stop), closed)
  ELSE errnum

\* sftp->errnum when the function returns: every branch past sftp_opendir
\* calls sftp_closedir, the failing ones after they have read the error.
ListErrnumAfter(mem, branch, opened, stop, closed) ==
  IF branch = "closed" \/ (branch = "memory" /\ mem # "make") THEN errnum
  ELSE IF branch = "opendir" THEN ErrAfterStatus(errnum, opened)
  ELSE IF branch \in {"memory", "append"} THEN ErrAfterStatus(errnum, closed)
  ELSE ErrAfterStatus(ErrAfterRead(errnum, stop), closed)

ListStatus(branch, opened, stop, closed) ==
  IF branch = "closed" THEN SSH_FX_NO_CONNECTION
  ELSE IF branch \in {"memory", "append"} THEN SSH_ERROR
  ELSE IF branch \in {"opendir", "read", "close"}
       THEN ListErrnum(branch, opened, stop, closed)
  ELSE SSH_OK

\* The requests sent: none before sftp_opendir, then one for it, one for
\* each call of sftp_readdir (the entries handed out and, unless an append
\* failed first, the call that returns NULL) and one for sftp_closedir.
ListSent(mem, branch, loop, entries) ==
  IF branch = "closed" THEN 0
  ELSE IF branch = "memory" /\ mem # "make" THEN 0
  ELSE IF branch = "opendir" THEN 1
  ELSE IF branch = "memory" THEN 2
  ELSE IF branch = "append" THEN 2 + Len(entries) - Len(loop.rest)
  ELSE 3 + Len(entries)

\* The caller's list: assigned on the last line only.
ListOut(branch, l) == IF branch = "ok" THEN Str(l) ELSE NULL

\* One call is studied in a behaviour: the inputs past the point where the
\* call returns are fixed, so that a call is not counted many times.
ListInputs(mem, opened, entries, stop, afail, closed) ==
  /\ mem # "none" \/ opened # "ok" =>
       entries = <<>> /\ stop = "eof" /\ afail = 0
  /\ mem \notin {"none", "make"} \/ opened # "ok" => closed = "ok"
  /\ afail > 0 => stop = "eof"
  /\ stop = "lost" => closed = "lost"

lsdir_sftp_connection(path, mem, opened, entries, stop, afail, closed) ==
  LET epath == expand_path(Str(path), conn_pwd, mem # "expand_path")
      loop == LsdirLoop(entries, <<>>, 0, afail)
      branch == ListBranch(mem, opened, loop.atts, stop, closed)
  IN  /\ pc = "idle"
      /\ mem \in {"none", "expand_path", "make"}
      /\ ListInputs(mem, opened, entries, stop, afail, closed)
      /\ status' = ListStatus(branch, opened, stop, closed)
      /\ errnum' = ListErrnumAfter(mem, branch, opened, stop, closed)
      /\ list' = ListOut(branch, loop.list)
      /\ call' = [op |-> "lsdir", path |-> Str(path), branch |-> branch]
      /\ fcall' = Str([fn |-> "lsdir", dir |-> epath, pattern |-> NULL,
                        entries |-> entries, stop |-> stop, closed |-> closed,
                        errnum |-> errnum])
      /\ pwd0' = conn_pwd
      /\ UNCHANGED <<ring, rhist>>
      /\ nsent' = ListSent(mem, branch, loop, entries)
      /\ fret' = NULL /\ put' = PutIdle
      /\ UNCHANGED <<conn_ssh, conn_sftp, conn_pwd, life,
                     pc, size, blen, rlen, reof, rerr, werr, nreq, nbad, ireq,
                     reqs, rsps, lens, offs, rc, rfile, pending, lfile, wrote,
                     nfail>>

lsglob_sftp_connection(glob, mem, opened, entries, stop, afail, closed) ==
  LET eglob == expand_path(Str(glob), conn_pwd, mem # "expand_path")
      epath == IF eglob = NULL THEN NULL
               ELSE ssh_dirname(Val(eglob), mem # "ssh_dirname")
      pattern == IF epath = NULL THEN NULL
                 ELSE ssh_basename(Val(eglob), mem # "ssh_basename")
      loop == LsglobLoop(pattern, entries, <<>>, 0, afail)
      branch == ListBranch(mem, opened, loop.atts, stop, closed)
  IN  /\ pc = "idle"
      /\ ListInputs(mem, opened, entries, stop, afail, closed)
      /\ status' = ListStatus(branch, opened, stop, closed)
      /\ errnum' = ListErrnumAfter(mem, branch, opened, stop, closed)
      /\ list' = ListOut(branch, loop.list)
      /\ call' = [op |-> "lsglob", path |-> Str(glob), branch |-> branch]
      /\ fcall' = Str([fn |-> "lsglob", dir |-> epath, pattern |-> pattern,
                        entries |-> entries, stop |-> stop, closed |-> closed,
                        errnum |-> errnum])
      /\ pwd0' = conn_pwd
      /\ UNCHANGED <<ring, rhist>>
      /\ nsent' = ListSent(mem, branch, loop, entries)
      /\ fret' = NULL /\ put' = PutIdle
      /\ UNCHANGED <<conn_ssh, conn_sftp, conn_pwd, life,
                     pc, size, blen, rlen, reof, rerr, werr, nreq, nbad, ireq,
                     reqs, rsps, lens, offs, rc, rfile, pending, lfile, wrote,
                     nfail>>

\* The status codes of a server used here, beside those of the download.
SSH_FX_NO_SUCH_FILE == 2
SSH_FX_PERMISSION_DENIED == 3
SSH_FX_FILE_ALREADY_EXISTS == 11

\* The session is open, in / or in /a; sftp->errnum is what the operations
\* before left there: 0 on a new session or after an accepted request,
\* SSH_FX_EOF after a listing, SSH_FX_FAILURE after a refused request,
\* SSH_FX_FILE_ALREADY_EXISTS after a mkdir of a path that was there.
Errnums == {SSH_FX_OK, SSH_FX_EOF, SSH_FX_FAILURE, SSH_FX_FILE_ALREADY_EXISTS}

OInit ==
  /\ pc = "idle" /\ size = 0
  /\ blen = max_blen /\ nreq = 1 /\ reof = FALSE /\ rerr = FALSE
  /\ werr = FALSE /\ nbad = 0 /\ rlen = 0 /\ ireq = 0
  /\ reqs = [i \in Slots |-> 0] /\ rsps = [i \in Slots |-> 0]
  /\ lens = [i \in Slots |-> 0] /\ offs = [i \in Slots |-> 0]
  /\ rc = SSH_OK /\ rfile = 0
  /\ errnum \in Errnums
  /\ pending = {} /\ lfile = <<>>
  /\ wrote = [o \in HistOffs |-> 0] /\ nfail = 0
  /\ conn_ssh = TRUE /\ conn_sftp = TRUE
  /\ conn_pwd \in {Str(<<"/">>), Str(<<"/", "a">>)}
  /\ call = [op |-> "none", path |-> NULL, branch |-> "none"]
  /\ status = SSH_OK /\ pwd0 = NULL /\ life = "open"
  /\ UIdle

\* No operation has been called yet.
Fresh == call.op = "none"

LsNext ==
  /\ Fresh
  /\ \/ \E path \in ListPaths, mem \in MemSteps, opened \in Answers,
           entries \in Entries, stop \in Stops, afail \in 0 .. MaxEntries,
           closed \in Answers :
           lsdir_sftp_connection(path, mem, opened, entries, stop, afail, closed)
     \/ \E glob \in GlobArgs, mem \in MemSteps, opened \in Answers,
           entries \in Entries, stop \in Stops, afail \in 0 .. MaxEntries,
           closed \in Answers :
           lsglob_sftp_connection(glob, mem, opened, entries, stop, afail, closed)

SpecList == OInit /\ [][LsNext]_vars

\* The call took the path to the last line of the function.
Listed(op) == call.op = op /\ call.branch = "ok"

\* The names that do not begin with '.', in order.
NonDot(entries) ==
  LET Shown(n) == ~(n # <<>> /\ n[1] = ".") IN SelectSeq(entries, Shown)

\* lsdir_sftp_connection hands over the filtered list where it reaches its
\* last line.
LsdirFiltered == Listed("lsdir") => list = Str(NonDot(Val(fcall).entries))

\* C13: a listDirectory that returns the success status has handed over
\* exactly the entries the server enumerated whose name does not begin with
\* '.', in the order of the enumeration.
C13_ListDirectory ==
  call.op = "lsdir" /\ status = SSH_OK =>
    list = Str(NonDot(Val(fcall).entries))

\* The pattern put after the working directory, its directory part and
\* its leaf: what is before and what is after its last '/'.
Expansion(glob, pwd) ==
  IF glob # <<>> /\ glob[1] = "/" THEN glob
  ELSE Stripped(pwd) \o <<"/">> \o glob

LastSlash(s) ==
  CHOOSE i \in 1 .. Len(s) :
    s[i] = "/" /\ \A j \in (i + 1) .. Len(s) : s[j] # "/"

DirPart(s) ==
  IF LastSlash(s) = 1 THEN <<"/">> ELSE SubSeq(s, 1, LastSlash(s) - 1)

LeafGlob(s) == SubSeq(s, LastSlash(s) + 1, Len(s))

\* A name satisfies a leaf glob: the glob produces it, and a glob that
\* begins with a wildcard does not take a name that begins with '.'.
Satisfies(g, n) ==
  /\ Produces(g, n)
  /\ ~(g # <<>> /\ g[1] \in {"*", "?"} /\ n # <<>> /\ n[1] = ".")

Matching(g, entries) ==
  LET Kept(n) == Satisfies(g, n) IN SelectSeq(entries, Kept)

\* What a listGlob is to hand over: it has opened the directory part of
\* the expanded pattern, and the list is the entries that satisfy the leaf.
GlobListed ==
  LET eglob == Expansion(Val(call.path), Val(conn_pwd))
  IN  /\ Val(fcall).dir = Str(DirPart(eglob))
      /\ list = Str(Matching(LeafGlob(eglob), Val(fcall).entries))

\* lsglob_sftp_connection hands over that list where it reaches its last
\* line.
LsglobFiltered == Listed("lsglob") => GlobListed

\* C14: a listGlob that returns the success status has handed over exactly
\* the entries enumerated for the directory part of the expanded pattern
\* whose name satisfies the leaf glob, in the order of the enumeration;
\* names that begin with '.' are among them when the leaf begins with a
\* literal '.' and matches them.
C14_ListGlob == call.op = "lsglob" /\ status = SSH_OK => GlobListed

\* The reading of the directory did not end at a clean end, or the close
\* failed, or an entry could not be appended.
ListFailed ==
  /\ call.op \in {"lsdir", "lsglob"}
  /\ call.branch \in {"read", "close", "append"}

\* No list is handed over on these paths.
ListFailedHandsNothing == ListFailed => list = NULL

\* C17: when the reading of the directory stops short of a clean end, or
\* the close fails, or an entry cannot be appended, the call returns a
\* failure status and hands no sequence to its caller.
C17_ListFailure == ListFailed => status # SSH_OK /\ list = NULL

(***************************************************************************)
(* mkdir_sftp_connection (lines 791-832).  libssh: sftp_mkdir returns 0    *)
(* after the status SSH_FX_OK and -1 otherwise.  A status message sets     *)
(* sftp->errnum to its code; after SSH_FX_FAILURE sftp_mkdir asks for the  *)
(* attributes of the path (sftp_lstat) and sets sftp->errnum to            *)
(* SSH_FX_FILE_ALREADY_EXISTS when it gets them, while a refusal leaves    *)
(* the code of the refusal there.  A failure of the channel leaves         *)
(* sftp->errnum as it was.                                                 *)
(***************************************************************************)
MkdirCodes == {SSH_FX_NO_SUCH_FILE, SSH_FX_PERMISSION_DENIED, SSH_FX_FAILURE,
               SSH_FX_FILE_ALREADY_EXISTS}

Exists(epath) == realpath(epath) \in Dirs \cup Files

\* sftp->errnum after sftp_mkdir(sftp, epath, mode).
MkdirErrnum(epath, answer, code, lstat) ==
  IF answer = "lost" THEN errnum
  ELSE IF answer = "ok" THEN SSH_FX_OK
  ELSE IF code # SSH_FX_FAILURE THEN code
  ELSE IF ~lstat THEN code
  ELSE IF Exists(epath) THEN SSH_FX_FILE_ALREADY_EXISTS
  ELSE SSH_FX_NO_SUCH_FILE

\* Lines 817-830 without the test of line 820.
MkdirStatusRaw(r, e) == IF r = SSH_OK THEN SSH_OK ELSE e

\* Lines 817-830: *rc from the result r of sftp_mkdir and sftp->errnum e.
MkdirStatus(r, e) ==
  IF r = SSH_OK THEN SSH_OK
  ELSE IF e = SSH_FX_FILE_ALREADY_EXISTS THEN SSH_OK
  ELSE e

mkdir_sftp_connection(path, alloc, answer, code, lstat) ==
  LET epath == expand_path(Str(path), conn_pwd, alloc)
      branch == IF ~conn_sftp THEN "closed"
                ELSE IF epath = NULL THEN "memory"
                ELSE "mkdir"
      e == IF branch = "mkdir"
           THEN MkdirErrnum(Val(epath), answer, code, lstat) ELSE errnum
  IN  /\ pc = "idle"
      /\ answer = "ok" => ~Exists(Val(expand_path(Str(path), conn_pwd, TRUE)))
      /\ answer # "status" => code = SSH_FX_FAILURE /\ lstat
      /\ status' = IF branch = "closed" THEN SSH_FX_NO_CONNECTION
                    ELSE IF branch = "memory" THEN SSH_ERROR
                    ELSE MkdirStatus(IF answer = "ok" THEN SSH_OK ELSE SSH_ERROR, e)
      /\ errnum' = e
      /\ call' = [op |-> "mkdir", path |-> Str(path), branch |-> branch]
      /\ fcall' = Str([fn |-> "mkdir", epath |-> epath, answer |-> answer,
                        code |-> code, lstat |-> lstat])
      /\ pwd0' = conn_pwd
      /\ UNCHANGED <<ring, rhist>>
      /\ nsent' = IF branch # "mkdir" THEN 0
                   ELSE IF answer = "status" /\ code = SSH_FX_FAILURE THEN 2
                   ELSE 1
      /\ fret' = NULL /\ list' = NULL /\ put' = PutIdle
      /\ UNCHANGED <<conn_ssh, conn_sftp, conn_pwd, life,
                     pc, size, blen, rlen, reof, rerr, werr, nreq, nbad, ireq,
                     reqs, rsps, lens, offs, rc, rfile, pending, lfile, wrote,
                     nfail>>

MkNext ==
  /\ Fresh
  /\ \E path \in PathArgs, alloc \in BOOLEAN, answer \in Answers,
        code \in MkdirCodes, lstat \in BOOLEAN :
        mkdir_sftp_connection(path, alloc, answer, code, lstat)

SpecMkdir == OInit /\ [][MkNext]_vars

\* The server answered the mkdir with a failure status.
MkdirRefused ==
  call.op = "mkdir" /\ call.branch = "mkdir" /\ Val(fcall).answer = "status"

\* The failure reported is that the path exists: the server says so in
\* its status, or it says SSH_FX_FAILURE and has attributes for the path.
ReportsExists ==
  \/ Val(fcall).code = SSH_FX_FILE_ALREADY_EXISTS
  \/ /\ Val(fcall).code = SSH_FX_FAILURE /\ Val(fcall).lstat
     /\ Exists(Val(Val(fcall).epath))

\* C18: makeDirectory returns the success status when the server reports
\* that the path already exists, and a failure status for every other
\* failure status of the server.
C18_MakeDirectory ==
  MkdirRefused => IF ReportsExists THEN status = SSH_OK ELSE status # SSH_OK

\* A mkdir of /a, which is there, has returned the success status.
C18_Witness ==
  /\ MkdirRefused /\ ReportsExists
  /\ Val(fcall).epath = Str(<<"/", "a">>)
  /\ Val(fcall).code = SSH_FX_FAILURE
  /\ status = SSH_OK

(***************************************************************************)
(* putfile_sftp_connection (lines 1125-1223), in three steps: the start up *)
(* to the first fread, one pass through the loop of lines 1185-1189 (its   *)
(* body and its increment), and the part after the loop.  The buffer of    *)
(* 65536 bytes is scaled to PutBlen.                                       *)
(*                                                                         *)
(* fread(buff, 1, blen, lfile) returns a size_t: the number of bytes read, *)
(* which is short of the request at the end of the file and after a read   *)
(* error (ferror is then set, the bytes may be none).  put.left is what    *)
(* the local file still holds; put.ferror, put.nwrite and put.wfail are    *)
(* history: a read has failed, the number of calls of sftp_write, and      *)
(* whether one of them failed or wrote less than it was given.  The bytes  *)
(* of the local file are named by their place, 1 .. put.lsize, and         *)
(* put.remote is the sequence of bytes sftp_write has put in the remote    *)
(* file, which it fills from its start in the order of the calls.          *)
(***************************************************************************)
PutBlen == 2
MaxLocal == 5

\* The results of fread with left bytes in the file: all that is asked for
\* or left, or fewer with the error indicator set.
Fread(left) ==
  {[n |-> Min(PutBlen, left), err |-> FALSE]}
  \cup {[n |-> k, err |-> TRUE] : k \in 0 .. (Min(PutBlen, left) - 1)}

\* Every result of fread on files of up to MaxLocal bytes.
Freads == UNION {Fread(left) : left \in 0 .. MaxLocal}

\* rerr = (rlen < 0), rlen being the int that takes the result of fread.
ReadError(n) == n < 0

\* The results of sftp_write(rfile, buff, rlen): the bytes written, or -1.
Swrite(n) == -1 .. n

\* The condition of the loop without its test of werr.
PutCondNoWerr == ~put.rerr /\ put.rlen > 0

\* (! rerr) && (! werr) && (rlen > 0)
PutCond == ~put.rerr /\ put.werr = 0 /\ put.rlen > 0

\* The bits of st_mode (sys/stat.h) and the and of two bit patterns.
S_IRWXU == 448
S_IRWXG == 56
S_IRWXO == 7

RECURSIVE BitAnd(_, _)
BitAnd(a, b) ==
  IF a = 0 \/ b = 0 THEN 0
  ELSE (a % 2) * (b % 2) + 2 * BitAnd(a \div 2, b \div 2)

\* The mode handed to sftp_open without the mask.
PutModeRaw(st_mode) == st_mode

\* atts.st_mode & (S_IRWXU | S_IRWXG | S_IRWXO)
PutMode(st_mode) == BitAnd(st_mode, S_IRWXU + S_IRWXG + S_IRWXO)

\* st_mode of local files: regular files rw-r--r--, rwxr-xr-x, the same
\* with the set-user-ID bit, without any permission, rwxrwxrwx,
\* rw-r----- with the set-group-ID bit, rwxrwxrwx with the sticky bit.
LocalModes == {33188, 33261, 35309, 32768, 33279, 34208, 33791}

\* The bytes fread has just put in the buffer: the n after place pos.
Chunk(pos, n) == [i \in 1 .. n |-> pos + i]

\* The part before the loop; pre names the first call that fails.
PutSteps == {"none", "expand_path", "stat", "fopen", "sftp_open"}

PutStart(rpath, lsize, st_mode, pre, fr) ==
  LET branch == IF ~conn_sftp THEN "closed"
                ELSE IF pre = "none" THEN "loop" ELSE pre
  IN  /\ pc = "idle" /\ put.pc # "loop"
      /\ fr \in Fread(lsize)
      /\ branch # "loop" => lsize = 0
      /\ call' = [op |-> "putfile", path |-> Str(rpath), branch |-> branch]
      /\ pwd0' = conn_pwd
      /\ IF branch = "loop"
         THEN /\ put' = [pc |-> "loop", rlen |-> fr.n, rerr |-> ReadError(fr.n),
                         werr |-> 0, left |-> lsize - fr.n, ferror |-> fr.err,
                         nwrite |-> 0, wfail |-> FALSE,
                         lsize |-> lsize, remote |-> <<>>]
              /\ UNCHANGED status
         ELSE /\ put' = [PutIdle EXCEPT !.pc = "done"]
              /\ status' = IF branch = "closed" THEN SSH_FX_NO_CONNECTION
                            ELSE SSH_ERROR
      /\ UNCHANGED <<ring, rhist>>
      /\ nsent' = IF branch = "loop" THEN 1
                   ELSE IF branch = "sftp_open" THEN 1 ELSE 0
      /\ fcall' = Str([fn |-> "putfile", st_mode |-> st_mode,
                        mode |-> IF branch \in {"loop", "sftp_open"}
                                 THEN Str(PutMode(st_mode)) ELSE NULL])
      /\ fret' = NULL /\ list' = NULL
      /\ UNCHANGED <<dvars, conn_ssh, conn_sftp, conn_pwd, life>>

\* werr = sftp_write(rfile, buff, rlen) - rlen, then the increment of the
\* for statement: rlen = fread(...), rerr = (rlen < 0).
PutWrite(w, refused, fr) ==
  /\ put.pc = "loop" /\ PutCond
  /\ w \in Swrite(put.rlen)
  /\ refused => w = -1
  /\ fr \in Fread(put.left)
  /\ put' = [put EXCEPT !.werr = w - put.rlen,
                         !.nwrite = put.nwrite + 1,
                         !.wfail = put.wfail \/ w # put.rlen,
                         !.remote = put.remote \o
                           Chunk(put.lsize - put.left - put.rlen, Max(w, 0)),
                         !.rlen = fr.n,
                         !.rerr = ReadError(fr.n),
                         !.left = put.left - fr.n,
                         !.ferror = put.ferror \/ fr.err]
  /\ errnum' = IF refused THEN SSH_FX_FAILURE ELSE errnum
  /\ UNCHANGED <<ring, rhist>>
  /\ nsent' = nsent + 1
  /\ UNCHANGED <<svars, fcall, fret, list,
                 pc, size, blen, rlen, reof, rerr, werr, nreq, nbad, ireq,
                 reqs, rsps, lens, offs, rc, rfile, pending, lfile, wrote,
                 nfail>>

\* Lines 1190-1222: *rc from the flags and from the two closes.
PutStatus(closed, fclosed) ==
  IF put.rerr THEN SSH_ERROR
  ELSE IF put.werr # 0 THEN SSH_ERROR
  ELSE IF closed # "ok" THEN ErrAfterStatus(errnum, closed)
  ELSE IF ~fclosed THEN SSH_ERROR
  ELSE SSH_OK

PutFinish(closed, fclosed) ==
  /\ put.pc = "loop" /\ ~PutCond
  /\ status' = PutStatus(closed, fclosed)
  /\ errnum' = ErrAfterStatus(errnum, closed)
  /\ put' = [put EXCEPT !.pc = "done"]
  /\ UNCHANGED <<ring, rhist>>
  /\ nsent' = nsent + 1
  /\ UNCHANGED <<conn_ssh, conn_sftp, conn_pwd, life, call, pwd0, fcall, fret,
                 list,
                 pc, size, blen, rlen, reof, rerr, werr, nreq, nbad, ireq,
                 reqs, rsps, lens, offs, rc, rfile, pending, lfile, wrote,
                 nfail>>

PutNext ==
  \/ /\ Fresh
     /\ \E rpath \in ListPaths, lsize \in 0 .. MaxLocal,
           st_mode \in LocalModes, pre \in PutSteps, fr \in Freads :
           PutStart(rpath, lsize, st_mode, pre, fr)
  \/ \E w \in Swrite(PutBlen), refused \in BOOLEAN, fr \in Freads :
        PutWrite(w, refused, fr)
  \/ \E closed \in Answers, fclosed \in BOOLEAN : PutFinish(closed, fclosed)

SpecPut == OInit /\ [][PutNext]_vars

\* C19: an upload during which a read of the local file failed returns a
\* failure status; the failure is not taken for the end of the file.
C19_LocalReadFailure ==
  put.pc = "done" /\ put.ferror => status # SSH_OK

\* C20: after a remote write that failed or wrote fewer bytes than it was
\* given no remote write follows, and the upload returns a failure status.
C20_RemoteWriteFailure ==
  /\ [](put.pc = "done" /\ put.wfail => status # SSH_OK)
  /\ [][put.wfail => put'.nwrite = put.nwrite]_vars

\* An upload has returned after a short write of its second chunk, with a
\* chunk read and bytes of the local file left behind.
C20_Witness ==
  /\ put.pc = "done" /\ put.wfail /\ put.nwrite = 2
  /\ put.werr = -1 /\ put.rlen > 0 /\ put.left > 0
  /\ status = SSH_ERROR

\* C29: in every state of a download the window size nreq lies between 0
\* and max_nreq, the slot index of the two loops is below nreq, and no more
\* than max_nreq requests wait for their answer.
C29_WindowBounds ==
  /\ 0 <= nreq /\ nreq <= max_nreq
  /\ pc \in {"dispatch", "collect"} => -1 <= ireq /\ ireq < nreq
  /\ Cardinality(pending) <= max_nreq

\* The window is full, every slot waiting for the answer to its request.
C29_Witness ==
  /\ pc = "collect" /\ nreq = max_nreq
  /\ Cardinality(pending) = max_nreq
  /\ \A i \in Window : Outstanding(i)

\* Slot i of the window holds a request that could not be sent.
Bad(i) == Live(i) /\ reqs[i] < 0

\* Slot i of the window was answered with a part of its range.
Incomplete(i) == Live(i) /\ reqs[i] >= 0 /\ rsps[i] # SSH_AGAIN

GrowsOnlyWithoutIncomplete ==
  [][nreq' > nreq => \A i \in Slots : ~Incomplete(i)]_vars

Source == [i \in 1 .. put.lsize |-> i]

\* An upload that returns success after reads that did not fail has
\* written the local file, and no chunk is longer than the buffer.
UploadedWhenRead ==
  /\ put.rlen <= PutBlen
  /\ put.pc = "done" /\ call.branch = "loop" /\ status = SSH_OK /\ ~put.ferror =>
       put.remote = Source

\* C21: whenever the upload returns success the bytes written to the
\* remote file are the local file from its first byte to its last, in
\* order, in chunks of at most the length of the buffer, for every length
\* of the local file.
C21_UploadExact ==
  /\ put.rlen <= PutBlen
  /\ put.pc = "done" /\ call.branch = "loop" /\ status = SSH_OK =>
       put.remote = Source

\* Bit k of a mode.
Bit(m, k) == (m \div (2 ^ k)) % 2

\* C22: the mode the upload hands to sftp_open has the nine permission
\* bits of the st_mode of the local file, and no other bit.
C22_UploadMode ==
  call.op = "putfile" /\ call.branch \in {"loop", "sftp_open"} =>
    LET mode == Val(Val(fcall).mode)
    IN  /\ \A k \in 0 .. 8 : Bit(mode, k) = Bit(Val(fcall).st_mode, k)
        /\ mode < 2 ^ 9

\* The local file is rwxr-xr-x with the set-user-ID bit: the remote file
\* is asked for with rwxr-xr-x.
C22_Witness ==
  /\ call.op = "putfile" /\ call.branch = "loop"
  /\ Val(fcall).st_mode = 35309
  /\ Val(fcall).mode = Str(493)

(***************************************************************************)
(* mexsftp_pwd: the output is a char array holding conn->pwd, or the empty *)
(* 0 x 0 double matrix when conn->pwd is NULL.                             *)
(***************************************************************************)
mxCreateString(str) == [class |-> "char", data |-> str]
mxEmpty == [class |-> "double", data |-> <<>>]

\* A variant of PwdOutput that hands over the working directory the call
\* before found.
PwdOutputStale == IF pwd0 # NULL THEN mxCreateString(Val(pwd0)) ELSE mxEmpty

PwdOutput == IF conn_pwd # NULL THEN mxCreateString(Val(conn_pwd)) ELSE mxEmpty

mexsftp_pwd ==
  /\ pc = "idle"
  /\ fret' = Str(PwdOutput)
  /\ call' = [op |-> "pwd", path |-> NULL, branch |-> "ok"]
  /\ pwd0' = conn_pwd
  /\ UNCHANGED <<ring, rhist>>
  /\ fcall' = NULL /\ list' = NULL /\ put' = PutIdle /\ nsent' = 0
  /\ UNCHANGED <<conn_ssh, conn_sftp, conn_pwd, life, status, dvars>>

(***************************************************************************)
(* lsfile, rmdir, rename and delfile check the connection, expand their    *)
(* paths and send one request.  The path taken:                            *)
(*   "closed"   conn->sftp is NULL,                                        *)
(*   "memory"   a path could not be expanded (or, in lsfile, the name      *)
(*              could not be copied),                                      *)
(*   "request"  the request failed,                                        *)
(*   "ok"       the last line is reached.                                  *)
(***************************************************************************)
OpBranch(expanded, answer) ==
  IF ~conn_sftp THEN "closed"
  ELSE IF ~expanded THEN "memory"
  ELSE IF answer # "ok" THEN "request"
  ELSE "ok"

\* *rc: sftp_get_error(sftp) where the request failed.
OpStatus(branch, answer) ==
  IF branch = "closed" THEN SSH_FX_NO_CONNECTION
  ELSE IF branch = "memory" THEN SSH_ERROR
  ELSE IF branch = "request" THEN ErrAfterStatus(errnum, answer)
  ELSE SSH_OK

\* The part the four functions share: every variable but errnum, which a
\* reply made of a status sets and a reply made of attributes leaves.
FileOp(op, path, branch, answer, sent, out) ==
  /\ pc = "idle"
  /\ status' = OpStatus(branch, answer)
  /\ call' = [op |-> op, path |-> Str(path), branch |-> branch]
  /\ pwd0' = conn_pwd
  /\ UNCHANGED <<ring, rhist>>
  /\ nsent' = sent
  /\ fcall' = Str([fn |-> op, answer |-> answer, errnum |-> errnum])
  /\ fret' = out
  /\ list' = NULL /\ put' = PutIdle
  /\ UNCHANGED <<conn_ssh, conn_sftp, conn_pwd, life,
                 pc, size, blen, rlen, reof, rerr, werr, nreq, nbad, ireq,
                 reqs, rsps, lens, offs, rc, rfile, pending, lfile, wrote,
                 nfail>>

\* The name of the attributes handed over (lines 595-596): the one that
\* came with them, or else a copy of the last component of the path;
\* named tells whether ssh_basename could make the copy.
StatName(sname, epath, named) ==
  IF sname # NULL THEN sname ELSE ssh_basename(Val(epath), named)

\* sname is the name field of the attributes sftp_stat returns.  libssh
\* parses the answer to a stat request without a name, so the field is
\* NULL; the other value is there for the test of line 595.
lsfile_sftp_connection(path, alloc, answer, sname, named) ==
  LET epath == expand_path(Str(path), conn_pwd, alloc)
      first == OpBranch(epath # NULL, answer)
      name == IF first = "ok" THEN StatName(sname, epath, named) ELSE NULL
      branch == IF first = "ok" /\ name = NULL THEN "memory" ELSE first
  IN  /\ answer = "ok" => Exists(Val(expand_path(Str(path), conn_pwd, TRUE)))
      /\ answer # "ok" => named /\ sname = NULL
      /\ sname # NULL => named
      /\ FileOp("lsfile", path, branch, answer,
                IF first \in {"request", "ok"} THEN 1 ELSE 0,
                IF branch = "ok"
                THEN Str([name |-> Val(name),
                          type |-> sftp_stat(Str(realpath(Val(epath))), TRUE)])
                ELSE NULL)
      /\ errnum' = IF first = "request" THEN ErrAfterStatus(errnum, answer)
                    ELSE errnum

rmdir_sftp_connection(path, alloc, answer) ==
  LET epath == expand_path(Str(path), conn_pwd, alloc)
      branch == OpBranch(epath # NULL, answer)
  IN  /\ FileOp("rmdir", path, branch, answer,
                IF branch \in {"request", "ok"} THEN 1 ELSE 0, NULL)
      /\ errnum' = IF branch \in {"request", "ok"}
                    THEN ErrAfterStatus(errnum, answer) ELSE errnum

rename_sftp_connection(opath, npath, oalloc, nalloc, answer) ==
  LET eopath == expand_path(Str(opath), conn_pwd, oalloc)
      enpath == expand_path(Str(npath), conn_pwd, nalloc)
      branch == OpBranch(eopath # NULL /\ enpath # NULL, answer)
  IN  /\ FileOp("rename", opath, branch, answer,
                IF branch \in {"request", "ok"} THEN 1 ELSE 0, NULL)
      /\ errnum' = IF branch \in {"request", "ok"}
                    THEN ErrAfterStatus(errnum, answer) ELSE errnum

delfile_sftp_connection(path, alloc, answer) ==
  LET epath == expand_path(Str(path), conn_pwd, alloc)
      branch == OpBranch(epath # NULL, answer)
  IN  /\ FileOp("delfile", path, branch, answer,
                IF branch \in {"request", "ok"} THEN 1 ELSE 0, NULL)
      /\ errnum' = IF branch \in {"request", "ok"}
                    THEN ErrAfterStatus(errnum, answer) ELSE errnum

(***************************************************************************)
(* getfile_sftp_connection up to its loop (lines 969-1003).  The path      *)
(* taken:                                                                  *)
(*   "closed"     conn->sftp is NULL,                                      *)
(*   "memory"     expand_path returns NULL,                                *)
(*   "sftp_open"  the remote file could not be opened,                     *)
(*   "fopen"      the local file could not be opened for writing,          *)
(*   "loop"       the loop is entered, where the download actions above    *)
(*                take over.                                               *)
(* fopen(lpath, "wb") creates the local file or empties it.                *)
(***************************************************************************)
GetBranch(epath, opened, fopened) ==
  IF ~conn_sftp THEN "closed"
  ELSE IF epath = NULL THEN "memory"
  ELSE IF opened # "ok" THEN "sftp_open"
  ELSE IF ~fopened THEN "fopen"
  ELSE "loop"

\* A variant of GetLocal that opens the local file before any check.
GetLocalFirst(branch) == IF branch = "fopen" THEN lfile ELSE <<>>

\* The local file when the part before the loop is over.
GetLocal(branch) == IF branch = "loop" THEN <<>> ELSE lfile

GetStart(rpath, alloc, opened, fopened, closed) ==
  LET epath == expand_path(Str(rpath), conn_pwd, alloc)
      branch == GetBranch(epath, opened, fopened)
  IN  /\ pc = "idle"
      /\ branch # "fopen" => closed = "ok"
      /\ pc' = IF branch = "loop" THEN "dispatch" ELSE "idle"
      /\ lfile' = GetLocal(branch)
      /\ status' = IF branch = "closed" THEN SSH_FX_NO_CONNECTION
                    ELSE IF branch = "loop" THEN status
                    ELSE SSH_ERROR
      /\ errnum' = IF branch = "sftp_open" THEN ErrAfterStatus(errnum, opened)
                    ELSE IF branch = "fopen" THEN ErrAfterStatus(errnum, closed)
                    ELSE errnum
      /\ call' = [op |-> "getfile", path |-> Str(rpath), branch |-> branch]
      /\ pwd0' = conn_pwd
      /\ UNCHANGED <<ring, rhist>>
      /\ nsent' = IF branch \in {"sftp_open", "loop"} THEN 1
                   ELSE IF branch = "fopen" THEN 2
                   ELSE 0
      /\ fcall' = Str([fn |-> "getfile", before |-> lfile])
      /\ fret' = NULL /\ list' = NULL /\ put' = PutIdle
      /\ UNCHANGED <<conn_ssh, conn_sftp, conn_pwd, life,
                     size, blen, rlen, reof, rerr, werr, nreq, nbad, ireq,
                     reqs, rsps, lens, offs, rc, rfile, pending, wrote, nfail>>

(***************************************************************************)
(* The operations called in any order on one connection handle, each with  *)
(* a few paths and every answer of the server.  The local file of the      *)
(* download is absent (or empty) or holds an old byte.  A download that    *)
(* reaches its loop goes on as the download actions above describe; an     *)
(* upload runs to its end before the next call.                           *)
(***************************************************************************)
OpPaths == {<<"a">>, <<"x">>}
OpEntries == {<<<<".">>, <<"a">>>>}
OpCodes == {SSH_FX_FAILURE, SSH_FX_PERMISSION_DENIED}

OpsInit ==
  /\ SessionNew
  /\ pc = "idle" /\ size = 0
  /\ blen = max_blen /\ nreq = 1 /\ reof = FALSE /\ rerr = FALSE
  /\ werr = FALSE /\ nbad = 0 /\ rlen = 0 /\ ireq = 0
  /\ reqs = [i \in Slots |-> 0] /\ rsps = [i \in Slots |-> 0]
  /\ lens = [i \in Slots |-> 0] /\ offs = [i \in Slots |-> 0]
  /\ rc = SSH_OK /\ rfile = 0
  /\ errnum = SSH_FX_OK
  /\ pending = {} /\ lfile \in {<<>>, <<1>>}
  /\ wrote = [o \in HistOffs |-> 0] /\ nfail = 0
  /\ UIdle

\* The inputs past the point where a call returns are fixed, so that a
\* call is not counted many times.
OpsNext ==
  \/ /\ put.pc # "loop"
     /\ \/ \E step \in OpenSteps, home \in {<<"/">>, <<"/", "a">>},
              code \in {SSH_ERROR, SSH_AUTH_DENIED} \cup SshErrorCodes :
              /\ step # "ok" => home = <<"/">>
              /\ open_sftp_connection(step, home, code)
        \/ close_sftp_connection
        \/ mexsftp_pwd
        \/ \E path \in OpPaths \cup {<<"/", "f">>}, alloc \in BOOLEAN,
              canon \in BOOLEAN, stat \in BOOLEAN,
              code \in {SSH_NO_ERROR, SSH_REQUEST_DENIED} :
              /\ ~alloc => canon
              /\ ~canon => stat
              /\ cwd_sftp_connection(path, alloc, canon, stat, code)
        \/ \E path \in OpPaths, alloc \in BOOLEAN, answer \in Answers,
              named \in BOOLEAN :
              /\ ~alloc => answer = "lost"
              /\ lsfile_sftp_connection(path, alloc, answer, NULL, named)
        \/ \E mem \in MemSteps, opened \in Answers, entries \in OpEntries,
              stop \in Stops, afail \in 0 .. 1, closed \in Answers :
              /\ mem \notin {"none", "make"} => opened = "ok"
              /\ \/ lsdir_sftp_connection(<<"a">>, mem, opened, entries,
                                          stop, afail, closed)
                 \/ lsglob_sftp_connection(<<"*">>, mem, opened, entries,
                                           stop, afail, closed)
        \/ \E path \in OpPaths, alloc \in BOOLEAN, answer \in Answers,
              code \in OpCodes, lstat \in BOOLEAN :
              /\ ~alloc => answer = "lost"
              /\ code # SSH_FX_FAILURE => lstat
              /\ mkdir_sftp_connection(path, alloc, answer, code, lstat)
        \/ \E path \in OpPaths, alloc \in BOOLEAN, answer \in Answers :
              /\ ~alloc => answer = "ok"
              /\ \/ rmdir_sftp_connection(path, alloc, answer)
                 \/ delfile_sftp_connection(path, alloc, answer)
                 \/ rename_sftp_connection(path, <<"x">>, alloc, TRUE, answer)
                 \/ rename_sftp_connection(path, <<"x">>, TRUE, alloc, answer)
        \/ \E alloc \in BOOLEAN, opened \in Answers, fopened \in BOOLEAN,
              closed \in Answers :
              /\ ~alloc => opened = "ok"
              /\ opened # "ok" => fopened
              /\ GetStart(<<"a">>, alloc, opened, fopened, closed)
        \/ \E lsize \in {0, PutBlen + 1}, pre \in PutSteps,
              fr \in Freads :
              PutStart(<<"a">>, lsize, 33188, pre, fr)
  \/ \E w \in Swrite(PutBlen), refused \in BOOLEAN, fr \in Freads :
        PutWrite(w, refused, fr)
  \/ \E closed \in Answers, fclosed \in BOOLEAN : PutFinish(closed, fclosed)

SpecOps == OpsInit /\ [][OpsNext]_vars

\* The ten operations that need an open session.
FileOps == {"cwd", "lsfile", "lsdir", "lsglob", "mkdir", "rmdir", "rename",
            "delfile", "getfile", "putfile"}

\* No member of the connection is set.
AllUnset == ~conn_ssh /\ ~conn_sftp /\ conn_pwd = NULL

\* C23: close on a session that was never opened or is already closed
\* releases nothing and changes nothing; after close on any session no
\* member is set, so that a second close finds the state of the first.
C23_CloseIdempotent ==
  [][close_sftp_connection =>
       /\ AllUnset'
       /\ AllUnset => /\ call'.branch = "nothing"
                      /\ UNCHANGED <<conn_ssh, conn_sftp, conn_pwd, status,
                                     errnum, lfile>>]_vars

\* close has been called again on a session that close had released.
C23_Witness ==
  /\ call.op = "close" /\ call.branch = "nothing"
  /\ life = "closed" /\ AllUnset

\* C24: each of the ten operations called on a session that is not open
\* returns SSH_FX_NO_CONNECTION, sends no request, and leaves the session,
\* the error code of the library and the local file as they were.
C24_NotOpen ==
  [][call'.op \in FileOps /\ ~conn_sftp /\ put.pc # "loop" =>
       /\ call'.branch = "closed"
       /\ status' = SSH_FX_NO_CONNECTION
       /\ nsent' = 0
       /\ pc' = "idle" /\ put'.pc # "loop"
       /\ UNCHANGED <<conn_ssh, conn_sftp, conn_pwd, errnum, lfile>>]_vars

\* A download was called on a session that had been opened and closed, and
\* the old local file is as it was.
C24_Witness ==
  /\ call.op = "getfile" /\ call.branch = "closed"
  /\ life = "closed" /\ ~conn_sftp
  /\ status = SSH_FX_NO_CONNECTION /\ nsent = 0
  /\ lfile = <<1>>

\* C25: the members of the connection are all set or all unset, and the
\* working directory of an open session is not the empty path.
C25_SessionShape ==
  /\ conn_ssh = conn_sftp
  /\ conn_sftp <=> conn_pwd # NULL
  /\ conn_sftp => Val(conn_pwd) # <<>>

\* An open session whose working directory a changeDirectory has
\* replaced, after which another one has failed.
C25_Witness ==
  /\ conn_sftp /\ conn_pwd = Str(<<"/", "a">>)
  /\ call.op = "cwd" /\ call.branch \notin {"ok", "closed"}
  /\ life = "reopened"

\* A failed open leaves the working directory as it was.
OpenFailedKeepsPwd ==
  call.op = "open" /\ call.branch # "ok" => conn_pwd = pwd0

\* C26: an open one step of which fails returns a status other than
\* SSH_OK and leaves the members of the connection as they were.
C26_OpenFailure ==
  call.op = "open" /\ call.branch # "ok" =>
    status # SSH_OK /\ conn_pwd = pwd0

\* The last call of one of the ten operations took an error path.
TookErrorPath ==
  /\ call.op \in FileOps
  /\ pc = "idle" /\ put.pc # "loop"
  /\ \/ call.branch \in {"closed", "memory", "canonicalize", "stat", "notdir",
                         "request", "opendir", "append", "read", "close",
                         "sftp_open", "fopen", "expand_path"}
     \/ /\ call.op = "mkdir" /\ call.branch = "mkdir"
        /\ Val(fcall).answer # "ok"
        /\ errnum # SSH_FX_FILE_ALREADY_EXISTS
     \/ call.op = "putfile" /\ call.branch = "loop" /\ put.wfail

\* C27: an operation that took an error path returns a status other than
\* SSH_OK, whatever error code the library holds.
C27_ErrorStatus == TookErrorPath => status # SSH_OK

\* The paths whose status does not come from the error code of the
\* library.
OwnStatusPaths ==
  TookErrorPath /\ call.branch \in {"closed", "memory", "notdir", "append",
                                    "sftp_open", "fopen", "expand_path"}
    => status # SSH_OK

\* C28: mexsftp_pwd hands over the working directory of an open session,
\* which is a canonical path, and the empty matrix for a session that is
\* not open, be it new or closed.
C28_GetWorkingDirectory ==
  call.op = "pwd" =>
    /\ conn_sftp => /\ fret = Str(mxCreateString(Val(conn_pwd)))
                    /\ realpath(Val(conn_pwd)) = Val(conn_pwd)
    /\ ~conn_sftp => fret = Str(mxEmpty)

\* The session was opened, closed and opened again in /a, and mexsftp_pwd
\* hands over /a.
C28_Witness ==
  /\ call.op = "pwd" /\ life = "reopened" /\ conn_sftp
  /\ fret = Str(mxCreateString(<<"/", "a">>))
  /\ pwd0 = conn_pwd

(***************************************************************************)
(* The halving of the chunk size (lines 1026, 1069).                       *)
(***************************************************************************)
\* The step that ends a cycle.
EndsCycle == pc = "collect" /\ pc' \in {"dispatch", "exit"}

\* The step in which slot ireq collects a data response.
CollectsData ==
  /\ pc = "collect" /\ pc' = "collect" /\ ireq >= 0 /\ ireq' = ireq - 1
  /\ rsps'[ireq] > 0

\* The slots that collected a data response in the cycle that ends: at the
\* start of the second loop every slot whose request was sent is waiting.
Answered == {i \in Window : reqs[i] >= 0 /\ rsps[i] > 0}

\* The second loop runs from the last slot to the first: the response
\* collected last is the one of the lowest slot.
LastAnswered == CHOOSE i \in Answered : \A j \in Answered : i <= j

\* The response collected last was shorter than its request: the slot keeps
\* a remaining length.
LastShort == lens[LastAnswered] > 0

\* C31 as stated: at the end of a cycle that collected a data response, the
\* chunk size is halved if and only if the response collected last was
\* shorter than its request and the chunk size exceeds min_blen.
C31_HalvedOnLastShort ==
  [][EndsCycle /\ Answered # {} =>
       (blen' = blen \div 2 /\ blen' # blen) <=> (LastShort /\ blen > min_blen)]_vars

\* C31: rlen holds the largest response that was shorter than the chunk size
\* in force and answered a request of at least that size; at the end of a
\* cycle the chunk size is halved if and only if 0 < rlen < blen and blen
\* exceeds min_blen, it changes at no other step, and the halving leaves
\* the offset and the remaining length of every slot as they were.
C31_HalvedOnRecorded ==
  [][/\ EndsCycle =>
          /\ blen' = IF 0 < rlen /\ rlen < blen /\ blen > min_blen
                     THEN blen \div 2 ELSE blen
          /\ offs' = offs /\ lens' = lens /\ rlen' = rlen
     /\ ~EndsCycle => blen' = blen
     /\ CollectsData =>
          rlen' = IF rsps'[ireq] < blen /\ blen <= lens[ireq]
                  THEN Max(rlen, rsps'[ireq]) ELSE rlen
     /\ ~CollectsData => rlen' = rlen]_vars

\* The chunk size has been halved while a slot keeps a remaining length
\* larger than the new chunk size.
C31_Witness ==
  /\ pc = "dispatch" /\ blen < max_blen
  /\ \E i \in Window : lens[i] > blen /\ offs[i] > 0

(***************************************************************************)
(* The window after the end of the file has been seen (lines 1025-1053).   *)
(***************************************************************************)
\* The step of the first loop that handles slot ireq, a complete slot.
HandlesComplete ==
  /\ DispatchGuard /\ NotWaiting(ireq) /\ lens[ireq] = 0
  /\ ireq' = ireq - 1

C33_WriteFailureAborts ==
  [][/\ CollectsData /\ wrote' # Count(wrote, offs[ireq], rsps'[ireq]) => werr'
     /\ werr => /\ werr'
                /\ pending' = pending /\ nfail' = nfail
                /\ reqs' = reqs /\ rsps' = rsps /\ lens' = lens /\ offs' = offs
                /\ lfile' = lfile /\ wrote' = wrote
                /\ pc' # "dispatch" /\ pc' # "collect"
                /\ (pc' = "done" => rc' # SSH_OK)]_vars

\* The download has returned SSH_ERROR after a write failure in a cycle
\* that left a slot unpolled and its request unanswered.
C33_Witness ==
  /\ pc = "done" /\ werr /\ ~rerr /\ rc = SSH_ERROR
  /\ ireq >= 0 /\ Request(ireq) # {}

(***************************************************************************)
(* The offset of a request sent again (lines 1029-1038).                   *)
(***************************************************************************)
\* C35: the request the first loop sends again for a slot with a remaining
\* length reaches the server at the offset recorded for the slot.
C35_ReissueAtOffset ==
  [][DispatchGuard /\ NotWaiting(ireq) /\ lens[ireq] # 0 =>
       \A q \in pending' \ pending : q.off = offs[ireq] /\ q.len = lens[ireq]]_vars

(***************************************************************************)
(* The count of bad slots (lines 1023-1053).                               *)
(***************************************************************************)
\* The first or the second loop is at its start or at its end.
PassBoundary ==
  /\ pc \in {"dispatch", "collect"}
  /\ ireq = nreq - 1 \/ ireq < 0 \/ rerr \/ werr

\* The slots of the window whose request was not sent and that have a
\* remaining length.
BadSlots == {i \in Window : Bad(i)}

\* C38: at the start and at the end of the first and of the second loop,
\* nbad is the number of bad slots of the window; it is never negative and
\* never above the size of the window.
C38_BadCount ==
  /\ PassBoundary => nbad = Cardinality(BadSlots)
  /\ pc \in {"dispatch", "collect"} => 0 <= nbad /\ nbad <= nreq

(***************************************************************************)
(* Termination of the transfer loop (lines 1023-1081).  The client keeps   *)
(* taking steps, and the server is fair: a slot polled again and again     *)
(* while its request is unanswered gets, in the end, a response other than *)
(* SSH_AGAIN.  The failures of sftp_async_read_begin are bounded by        *)
(* MaxIssueFail, the file is finite: one chunk of max_blen bytes.          *)
(***************************************************************************)
\* The poll of a slot returns the response of the server to its request.
Responds ==
  \/ \E n \in 1 .. max_blen, w \in WriteResults : CollectData(n, w)
  \/ CollectEof
  \/ CollectStatus

\* The download of a file of one chunk.
FairInit == DInit /\ size = max_blen

SpecFair ==
  FairInit /\ [][DNext]_vars /\ WF_vars(DNext) /\ SF_vars(Responds)

\* C34: with a fair server the download comes to its end and returns.
C34_Terminates == <>(pc = "done")

\* The download has left the loop, or returned, with bad slots and no read
\* or write error: request issuance failed to the end.
EndedOnBad == pc \in {"exit", "done"} /\ nbad > 0 /\ ~rerr /\ ~werr

\* The loop ends on bad slots only when it counts as many as the window
\* has slots.
EndsWhenAllBad == EndedOnBad => nbad >= nreq

\* A download that ended on bad slots returns a status other than SSH_OK.
EndedOnBadFails == EndedOnBad /\ pc = "done" => rc # SSH_OK

(***************************************************************************)
(* The working directory across the operations of a session.               *)
(***************************************************************************)
\* The path is the canonical form the server gives.
Canonical(p) == p # NULL /\ realpath(Val(p)) = Val(p)

\* C36: the working directory changes only in an open that succeeds, which
\* sets it to a canonical path, in a close, which clears it, and in a cwd
\* that succeeds, which sets it to the canonical form of the path resolved
\* against the old working directory; a cwd that succeeds sets it so even
\* when that leaves it as it was, and every other call, and every failed
\* one, leaves it as it was.
C36_PwdFrame ==
  [][/\ conn_pwd' # conn_pwd =>
          \/ /\ call'.op = "open" /\ call'.branch = "ok" /\ status' = SSH_OK
             /\ Canonical(conn_pwd')
          \/ call'.op = "close" /\ conn_pwd' = NULL
          \/ /\ call'.op = "cwd" /\ call'.branch = "ok" /\ status' = SSH_OK
     /\ call'.op = "cwd" /\ call'.branch = "ok" =>
          /\ Canonical(conn_pwd')
          /\ conn_pwd' =
               Str(realpath(Val(expand_path(call'.path, conn_pwd, TRUE))))
     /\ call'.op \in FileOps \ {"cwd"} => conn_pwd' = conn_pwd
     /\ call'.op \in FileOps /\ status' # SSH_OK => conn_pwd' = conn_pwd]_vars

\* A rename has failed on an open session whose working directory was
\* /a, and the working directory is still /a.
C36_Witness ==
  /\ call.op = "rename" /\ call.branch = "request" /\ status # SSH_OK
  /\ conn_sftp /\ conn_pwd = Str(<<"/", "a">>) /\ pwd0 = conn_pwd
  /\ life = "open"

(***************************************************************************)
(* One call of lsfile_sftp_connection on an open session, with every path, *)
(* every answer of the server, attributes with and without a name, and     *)
(* ssh_basename with and without memory.                                   *)
(***************************************************************************)
StatNames == {NULL, Str(<<"n">>)}

StatNext ==
  /\ Fresh
  /\ \E path \in PathArgs, alloc \in BOOLEAN, answer \in Answers,
        sname \in StatNames, named \in BOOLEAN :
        lsfile_sftp_connection(path, alloc, answer, sname, named)

SpecStat == OInit /\ [][StatNext]_vars

\* The record handed over has a name, which is not the empty string.
HasName == fret # NULL /\ Val(fret).name # <<>>

\* The last component of the path the call expanded.
LastSegment ==
  Val(ssh_basename(Val(expand_path(call.path, conn_pwd, TRUE)), TRUE))

\* C37: an lsfile that returns the success status has handed over a record
\* with a name.
C37_StatHasName ==
  call.op = "lsfile" /\ status = SSH_OK => HasName

\* An lsfile that reaches its last line hands over a record with a name,
\* the one that came with the attributes or else the last component of the
\* expanded path; one that finds no name returns SSH_ERROR and no record,
\* and no other path hands over a record.
StatNamed ==
  call.op = "lsfile" =>
    /\ call.branch = "ok" =>
         /\ status = SSH_OK /\ HasName
         /\ Val(fret).name \in {<<"n">>, LastSegment}
    /\ call.branch = "memory" => status = SSH_ERROR /\ fret = NULL
    /\ call.branch # "ok" => fret = NULL

\* The name handed over is the one that came with the attributes when
\* there is one, and the last component of the expanded path otherwise.
StatNameChosen ==
  [][\A path \in PathArgs, alloc \in BOOLEAN, sname \in StatNames :
       lsfile_sftp_connection(path, alloc, "ok", sname, TRUE) =>
         /\ call'.branch = "ok" <=> alloc
         /\ alloc =>
              Val(fret').name =
                IF sname # NULL THEN Val(sname)
                ELSE Val(ssh_basename(Val(expand_path(Str(path), conn_pwd,
                                                      TRUE)), TRUE))]_vars

(***************************************************************************)
(* The attribute list (lines 144-279): a ring of nodes through a sentinel, *)
(* each node with its attributes and its two links.  Node 0 is the         *)
(* sentinel make_sftp_attributes_list allocates; malloc gives any node     *)
(* that is not allocated, or NULL.  The fields of a node that was freed    *)
(* are not part of the state.  The attributes are told apart by a letter.  *)
(***************************************************************************)
MaxNodes == 3
MaxCalls == 6

Nodes == 0 .. MaxNodes
Lend == 0
Attributes == {"a", "b"}
Unset == [next |-> Lend, prev |-> Lend, atts |-> NULL]

\* list = malloc(...); list->atts = NULL; list->prev = list; list->next = list
make_sftp_attributes_list ==
  [node |-> [n \in Nodes |-> Unset], live |-> {Lend}]

\* malloc: a node that is not allocated.
Malloc(r) == Nodes \ r.live

\* One assignment to a field of a node.
SetNext(r, n, m) == [r EXCEPT !.node[n].next = m]
SetPrev(r, n, m) == [r EXCEPT !.node[n].prev = m]
SetAtts(r, n, a) == [r EXCEPT !.node[n].atts = a]

\* free(n)
Free(r, n) == [r EXCEPT !.node[n] = Unset, !.live = @ \ {n}]

\* A variant of addhead that leaves the old head pointing back at the
\* sentinel.
AddheadNoBack(r, iter, atts) ==
  LET head == r.node[Lend].next
      r1 == SetAtts([r EXCEPT !.live = @ \cup {iter}], iter, Str(atts))
      r2 == SetNext(r1, Lend, iter)
      r3 == SetPrev(r2, iter, Lend)
  IN  SetNext(r3, iter, head)

\* addhead_sftp_attributes_list where malloc has given iter (lines 157-164).
addhead(r, iter, atts) ==
  LET head == r.node[Lend].next
      r1 == SetAtts([r EXCEPT !.live = @ \cup {iter}], iter, Str(atts))
      r2 == SetNext(r1, Lend, iter)
      r3 == SetPrev(r2, iter, Lend)
      r4 == SetNext(r3, iter, head)
  IN  SetPrev(r4, head, iter)

\* addtail_sftp_attributes_list where malloc has given iter (lines 173-180).
addtail(r, iter, atts) ==
  LET tail == r.node[Lend].prev
      r1 == SetAtts([r EXCEPT !.live = @ \cup {iter}], iter, Str(atts))
      r2 == SetNext(r1, tail, iter)
      r3 == SetPrev(r2, iter, tail)
      r4 == SetNext(r3, iter, Lend)
  IN  SetPrev(r4, Lend, iter)

\* The node n taken out of the ring and freed (lines 194-196, 210-212):
\* n->prev->next = n->next; n->next->prev = n->prev; free(n)
Unlink(r, n) ==
  LET r1 == SetNext(r, r.node[n].prev, r.node[n].next)
      r2 == SetPrev(r1, r1.node[n].next, r1.node[n].prev)
  IN  Free(r2, n)

\* remhead_sftp_attributes_list: the list after the call.
remhead(r) ==
  LET head == r.node[Lend].next
  IN  IF head # Lend THEN Unlink(r, head) ELSE r

\* remtail_sftp_attributes_list: the list after the call.
remtail(r) ==
  LET tail == r.node[Lend].prev
  IN  IF tail # Lend THEN Unlink(r, tail) ELSE r

\* What remhead and remtail return: the attributes of the node, or NULL.
RemReturn(r, n) == IF n # Lend THEN r.node[n].atts ELSE NULL

\* length_sftp_attributes_list: the nodes from the head to the sentinel.
RECURSIVE Count_next(_, _, _)
Count_next(r, iter, fuel) ==
  IF iter = Lend \/ fuel = 0 THEN 0
  ELSE 1 + Count_next(r, r.node[iter].next, fuel - 1)

length_sftp_attributes_list(r) ==
  Count_next(r, r.node[Lend].next, MaxNodes + 1)

\* The attributes met from the head to the sentinel (the loops of
\* mexsftp_lsdir and mexsftp_lsglob) and from the tail to the sentinel.
RECURSIVE Walk(_, _, _, _)
Walk(r, iter, field, fuel) ==
  IF iter = Lend \/ fuel = 0 THEN <<>>
  ELSE <<Val(r.node[iter].atts)>> \o
       Walk(r, r.node[iter][field], field, fuel - 1)

Forward(r) == Walk(r, r.node[Lend].next, "next", MaxNodes + 1)
Backward(r) == Walk(r, r.node[Lend].prev, "prev", MaxNodes + 1)

(***************************************************************************)
(* The four functions called in any order on one list, MaxCalls times.     *)
(* rhist counts the nodes added and the entries given back, and keeps the  *)
(* sequence the calls describe.                                            *)
(***************************************************************************)
Reverse(s) == [i \in 1 .. Len(s) |-> s[Len(s) + 1 - i]]

RingCall(fn, ret, adds, rems, seq) ==
  /\ rhist.calls < MaxCalls
  /\ rhist' = [fn |-> fn, ret |-> ret, calls |-> rhist.calls + 1,
               adds |-> rhist.adds + adds, rems |-> rhist.rems + rems,
               seq |-> seq, before |-> Val(ring)]
  /\ UNCHANGED <<dvars, svars, fcall, fret, list, put, nsent>>

RingAddhead(iter, atts) ==
  /\ iter \in Malloc(Val(ring))
  /\ ring' = Str(addhead(Val(ring), iter, atts))
  /\ RingCall("addhead", Str(iter), 1, 0, <<atts>> \o rhist.seq)

RingAddtail(iter, atts) ==
  /\ iter \in Malloc(Val(ring))
  /\ ring' = Str(addtail(Val(ring), iter, atts))
  /\ RingCall("addtail", Str(iter), 1, 0,
              addtail_sftp_attributes_list(rhist.seq, atts))

\* malloc returns NULL: the list is left alone and NULL is returned.
RingAddFails(fn) ==
  /\ ring' = ring
  /\ RingCall(fn, NULL, 0, 0, rhist.seq)

RingRemhead ==
  LET ret == RemReturn(Val(ring), Val(ring).node[Lend].next)
  IN  /\ ring' = Str(remhead(Val(ring)))
      /\ RingCall("remhead", ret, 0, IF ret = NULL THEN 0 ELSE 1,
                  IF rhist.seq = <<>> THEN <<>> ELSE Tail(rhist.seq))

RingRemtail ==
  LET ret == RemReturn(Val(ring), Val(ring).node[Lend].prev)
  IN  /\ ring' = Str(remtail(Val(ring)))
      /\ RingCall("remtail", ret, 0, IF ret = NULL THEN 0 ELSE 1,
                  IF rhist.seq = <<>> THEN <<>>
                  ELSE SubSeq(rhist.seq, 1, Len(rhist.seq) - 1))

RingInit ==
  /\ SessionNew /\ DIdle
  /\ fcall = NULL /\ fret = NULL /\ list = NULL /\ put = PutIdle /\ nsent = 0
  /\ ring = Str(make_sftp_attributes_list)
  /\ rhist = [fn |-> "make", ret |-> NULL, calls |-> 0, adds |-> 0,
              rems |-> 0, seq |-> <<>>, before |-> make_sftp_attributes_list]

RingNext ==
  \/ \E iter \in Nodes, atts \in Attributes : RingAddhead(iter, atts)
  \/ \E iter \in Nodes, atts \in Attributes : RingAddtail(iter, atts)
  \/ \E fn \in {"addhead", "addtail"} : RingAddFails(fn)
  \/ RingRemhead
  \/ RingRemtail

SpecRing == RingInit /\ [][RingNext]_vars

\* The nodes of the list: those allocated.
Linked(r) ==
  \A n \in r.live :
    /\ r.node[n].next \in r.live /\ r.node[n].prev \in r.live
    /\ r.node[r.node[n].next].prev = n
    /\ r.node[r.node[n].prev].next = n

\* C39: the list is a ring through its sentinel in both directions, every
\* allocated node is on it, its length is the number of nodes added less
\* the number of entries given back, the walk from the head meets the
\* entries in the order the calls describe (those added at the tail in the
\* order of their insertion, after those added at the head), the walk from
\* the tail meets them in the opposite order, and a remhead or remtail of
\* an empty list returns NULL and leaves the list as it was.
C39_Ring ==
  LET r == Val(ring)
  IN  /\ Linked(r)
      /\ length_sftp_attributes_list(r) = Cardinality(r.live) - 1
      /\ length_sftp_attributes_list(r) = rhist.adds - rhist.rems
      /\ Forward(r) = rhist.seq
      /\ Backward(r) = Reverse(rhist.seq)
      /\ r.node[Lend].atts = NULL
      /\ rhist.fn \in {"remhead", "remtail"} =>
           /\ rhist.ret = NULL <=> Forward(rhist.before) = <<>>
           /\ rhist.ret = NULL => r = rhist.before
           /\ rhist.ret # NULL =>
                Val(rhist.ret) = IF rhist.fn = "remhead"
                                 THEN Head(Forward(rhist.before))
                                 ELSE Head(Backward(rhist.before))
      /\ rhist.fn \in {"addhead", "addtail"} /\ rhist.ret = NULL =>
           r = rhist.before

\* Entries were added at both ends, one was taken from each end, and the
\* list, now empty, was asked for one more, which it did not have.
C39_Witness ==
  /\ rhist.fn = "remtail" /\ rhist.ret = NULL
  /\ rhist.adds = 2 /\ rhist.rems = 2
  /\ Forward(Val(ring)) = <<>>

====
